---- MODULE Spec2Model ----
(***************************************************************************)
(* Model of the clustering engine of tna-js (src/src/core/types.ts lines   *)
(* 169-925): sequence normalisation, the dissimilarity library, the        *)
(* distance-matrix builders, PAM, Lance-Williams hierarchical clustering,  *)
(* the silhouette scorer and the clusterData / clusterSequences facade.    *)
(*                                                                         *)
(* Every JavaScript number is an IEEE-754 binary64 value.  The model keeps *)
(* that arithmetic: a number is one of                                     *)
(*     <<0, n>>          the integer n, |n| < 2^30                         *)
(*     <<1, s, e, m>>    s * m * 2^e, s in {-1,1}, m an odd natural number *)
(*                       of at most 53 bits held as base-2^15 limbs        *)
(*     <<2, s>>          s * Infinity                                      *)
(* and +, -, *, /, Math.sqrt round to nearest, ties to even.  The form is  *)
(* canonical, so = on numbers is numeric equality.                         *)
(***************************************************************************)
EXTENDS Integers, Sequences, FiniteSets, TLC

\* ------------------------------------------------------------------------
\* Natural numbers of arbitrary size: little-endian sequences of limbs
\* ------------------------------------------------------------------------
Base == 2 ^ 15

\* TRUE.  TLC leaves the argument of an operator unevaluated until its first use;
\* Now(x) evaluates an accumulator where the loop of the source assigns it.
Now(x) == x = x

MaxOf(a, b) == IF a >= b THEN a ELSE b
MinOf(a, b) == IF a <= b THEN a ELSE b

RECURSIVE BigTrim(_)
BigTrim(a) ==
  IF a = <<>> THEN a
  ELSE IF a[Len(a)] = 0 THEN BigTrim(SubSeq(a, 1, Len(a) - 1)) ELSE a

RECURSIVE BigOfInt(_)
BigOfInt(n) == IF n = 0 THEN <<>> ELSE <<n % Base>> \o BigOfInt(n \div Base)

RECURSIVE BigToInt(_)
BigToInt(a) == IF a = <<>> THEN 0 ELSE a[1] + Base * BigToInt(Tail(a))

Limb(a, i) == IF i <= Len(a) THEN a[i] ELSE 0

\* the limbs i.. of a + b, c the carry into limb i
RECURSIVE BigAddFrom(_, _, _, _)
BigAddFrom(a, b, i, c) ==
  IF i > Len(a) /\ i > Len(b) THEN (IF c = 0 THEN <<>> ELSE <<c>>)
  ELSE <<(Limb(a, i) + Limb(b, i) + c) % Base>>
       \o BigAddFrom(a, b, i + 1, (Limb(a, i) + Limb(b, i) + c) \div Base)

BigAdd(a, b) == BigAddFrom(a, b, 1, 0)

\* t is limb i of a minus limb i of b minus the borrow, in -Base .. Base - 1
RECURSIVE BigSubFrom(_, _, _, _)
BigSubFrom(a, b, i, t) ==
  IF i > Len(a) THEN <<>>
  ELSE <<t % Base>>
       \o BigSubFrom(a, b, i + 1,
                     Limb(a, i + 1) - Limb(b, i + 1) - (IF t < 0 THEN 1 ELSE 0))

\* a - b for a >= b
BigSub(a, b) == BigTrim(BigSubFrom(a, b, 1, Limb(a, 1) - Limb(b, 1)))

RECURSIVE BigCmpFrom(_, _, _)
BigCmpFrom(a, b, i) ==
  IF i = 0 THEN 0
  ELSE IF a[i] < b[i] THEN -1
  ELSE IF a[i] > b[i] THEN 1
  ELSE BigCmpFrom(a, b, i - 1)

\* -1, 0, 1 as a < b, a = b, a > b
BigCmp(a, b) ==
  IF Len(a) < Len(b) THEN -1
  ELSE IF Len(a) > Len(b) THEN 1
  ELSE BigCmpFrom(a, b, Len(a))

\* t is limb i of a times x plus the carry, below Base * Base
RECURSIVE BigMulLimbFrom(_, _, _, _)
BigMulLimbFrom(a, x, i, t) ==
  IF i > Len(a) THEN (IF t = 0 THEN <<>> ELSE <<t>>)
  ELSE <<t % Base>> \o BigMulLimbFrom(a, x, i + 1, Limb(a, i + 1) * x + (t \div Base))

BigMulLimb(a, x) ==
  IF x = 0 \/ a = <<>> THEN <<>> ELSE BigMulLimbFrom(a, x, 1, a[1] * x)

Zeros(k) == [i \in 1..k |-> 0]

\* p * Base^k
BigShiftLimbs(p, k) == IF p = <<>> THEN <<>> ELSE Zeros(k) \o p

RECURSIVE BigMulFrom(_, _, _)
BigMulFrom(a, b, i) ==
  IF i > Len(b) THEN <<>>
  ELSE BigAdd(BigShiftLimbs(BigMulLimb(a, b[i]), i - 1), BigMulFrom(a, b, i + 1))

BigMul(a, b) == IF a = <<>> \/ b = <<>> THEN <<>> ELSE BigMulFrom(a, b, 1)

\* a * 2^k
BigShl(a, k) == BigShiftLimbs(BigMulLimb(a, 2 ^ (k % 15)), k \div 15)

\* the limbs i.. of floor(d / 2^r), 0 <= r < 15
RECURSIVE BigShrFrom(_, _, _)
BigShrFrom(d, r, i) ==
  IF i > Len(d) THEN <<>>
  ELSE <<(d[i] \div (2 ^ r)) + (Limb(d, i + 1) % (2 ^ r)) * (2 ^ (15 - r))>>
       \o BigShrFrom(d, r, i + 1)

\* floor(a / 2^k)
BigShr(a, k) ==
  IF k \div 15 >= Len(a) THEN <<>>
  ELSE BigTrim(BigShrFrom(SubSeq(a, (k \div 15) + 1, Len(a)), k % 15, 1))

\* the number of bits of a limb
BitLenSmall(x) == CHOOSE b \in 0..15 : x < 2 ^ b /\ (b = 0 \/ x >= 2 ^ (b - 1))

BigBitLen(a) ==
  IF a = <<>> THEN 0 ELSE 15 * (Len(a) - 1) + BitLenSmall(a[Len(a)])

BigIsOdd(a) == a # <<>> /\ a[1] % 2 = 1

\* the number of trailing zero bits of a limb x > 0
TrailingZerosSmall(x) == CHOOSE z \in 0..14 : x % (2 ^ z) = 0 /\ x % (2 ^ (z + 1)) # 0

RECURSIVE BigTrailingZerosFrom(_, _)
BigTrailingZerosFrom(a, i) ==
  IF a[i] = 0 THEN 15 + BigTrailingZerosFrom(a, i + 1)
  ELSE TrailingZerosSmall(a[i])

\* number of trailing zero bits of a > 0
BigTrailingZeros(a) == BigTrailingZerosFrom(a, 1)

\* long division (Knuth's algorithm D): d has its top limb at least Base / 2,
\* r < d is the running remainder, q the digits found so far; limb j of n is next
RECURSIVE BigDivFrom(_, _, _, _, _)
RECURSIVE BigDivTry(_, _, _, _, _, _)
RECURSIVE BigDivNext(_, _, _, _, _, _)
BigDivFrom(n, d, j, r, q) ==
  IF Len(r) + Len(q) >= 0 /\ j = 0 THEN <<q, r>>
  ELSE BigDivTry(n, d, j, BigTrim(<<n[j]>> \o r),
                 MinOf((Limb(r, Len(d)) * Base
                          + (IF Len(d) = 1 THEN n[j] ELSE Limb(r, Len(d) - 1)))
                         \div d[Len(d)],
                       Base - 1),
                 q)

\* r1 = r * Base + n[j]; qhat, the two top limbs of r1 over the top limb of d, is
\* the digit, or 1 or 2 above it
BigDivTry(n, d, j, r1, qhat, q) ==
  BigDivNext(n, d, j, r1,
             IF BigCmp(BigMulLimb(d, qhat), r1) <= 0 THEN qhat
             ELSE IF BigCmp(BigMulLimb(d, qhat - 1), r1) <= 0 THEN qhat - 1
             ELSE qhat - 2,
             q)

BigDivNext(n, d, j, r1, t, q) ==
  BigDivFrom(n, d, j - 1, BigSub(r1, BigMulLimb(d, t)), <<t>> \o q)

BigDivPack(qr, sh) == <<BigTrim(qr[1]), BigShr(qr[2], sh)>>

\* the top Len(d) - 1 limbs of n are below d: the division starts under them
BigDivNormal(n, d, sh) ==
  IF Len(n) < Len(d) THEN <<<<>>, BigShr(n, sh)>>
  ELSE BigDivPack(BigDivFrom(n, d, Len(n) - Len(d) + 1,
                             SubSeq(n, Len(n) - Len(d) + 2, Len(n)), <<>>), sh)

BigDivBy(n, d, sh) == BigDivNormal(BigShl(n, sh), BigShl(d, sh), sh)

\* <<floor(n / d), n mod d>> for d > 0
BigDivMod(n, d) == BigDivBy(n, d, 15 - BitLenSmall(d[Len(d)]))

\* floor(sqrt(t)) of an integer 0 < t < 2^30, by Newton's iteration from above
RECURSIVE IntSqrtFrom(_, _)
IntSqrtFrom(t, x) ==
  IF (x + (t \div x)) \div 2 >= x THEN x ELSE IntSqrtFrom(t, (x + (t \div x)) \div 2)

IntSqrt(t) == IntSqrtFrom(t, 2 ^ 15)

\* Newton's iteration from above: x is never below floor(sqrt(n))
RECURSIVE BigSqrtFrom(_, _)
RECURSIVE BigSqrtStep(_, _, _)
BigSqrtFrom(n, x) == BigSqrtStep(n, x, BigShr(BigAdd(x, BigDivMod(n, x)[1]), 1))

BigSqrtStep(n, x, y) == IF BigCmp(y, x) >= 0 THEN x ELSE BigSqrtFrom(n, y)

\* the start: the root of the bits of n above an even number sh of bits, plus 1
BigSqrtAbove(n, sh) ==
  BigSqrtFrom(n, BigShl(BigOfInt(IntSqrt(BigToInt(BigShr(n, sh))) + 1), sh \div 2))

\* floor(sqrt(n)) for n > 0
BigSqrt(n) == BigSqrtAbove(n, 2 * (MaxOf(0, BigBitLen(n) - 29) \div 2))

\* ------------------------------------------------------------------------
\* IEEE-754 binary64 arithmetic (round to nearest, ties to even)
\* ------------------------------------------------------------------------
Num(n) == <<0, n>>
Infinity == <<2, 1>>
NegInfinity == <<2, -1>>

IsInf(x) == x[1] = 2
Sgn(n) == IF n > 0 THEN 1 ELSE IF n < 0 THEN -1 ELSE 0
AbsInt(n) == IF n < 0 THEN -n ELSE n

NumSign(x) == IF x[1] = 0 THEN Sgn(x[2]) ELSE x[2]
NumMant(x) == IF x[1] = 0 THEN BigOfInt(AbsInt(x[2])) ELSE x[4]
NumExp(x) == IF x[1] = 0 THEN 0 ELSE x[3]

\* the canonical form of s * m * 2^e, m odd and of at most 53 bits
Pack(s, m, e) ==
  IF e >= 0 /\ BigBitLen(m) + e <= 30 THEN Num(s * BigToInt(BigShl(m, e)))
  ELSE <<1, s, e, m>>

Strip(s, m, e, tz) == Pack(s, BigShr(m, tz), e + tz)

\* s * m * 2^e for m > 0 of at most 53 bits
Canon(s, m, e) == Strip(s, m, e, BigTrailingZeros(m))

\* q1 holds the 54 leading bits of the mantissa, sticky tells whether a lower bit is
\* set: round the last bit of q1 away, to nearest, ties to even
RoundUp(s, q1, sticky, e) ==
  Canon(s,
        IF BigIsOdd(q1) /\ (sticky \/ q1[1] % 4 = 3)
        THEN BigAdd(BigShr(q1, 1), <<1>>) ELSE BigShr(q1, 1),
        e)

\* sh: the number of bits of m beyond 53
RoundBits(s, m, e, sh) ==
  IF sh <= 0 THEN Canon(s, m, e)
  ELSE RoundUp(s, BigShr(m, sh - 1), BigTrailingZeros(m) < sh - 1, e + sh)

\* the binary64 value nearest to s * m * 2^e (m a natural number of any size)
Round(s, m, e) ==
  IF m = <<>> THEN Num(0) ELSE RoundBits(s, m, e, BigBitLen(m) - 53)

NumNeg(x) ==
  IF x[1] = 0 THEN Num(-x[2])
  ELSE IF x[1] = 2 THEN <<2, -x[2]>>
  ELSE <<1, -x[2], x[3], x[4]>>

Small(n) == n > -(2 ^ 30) /\ n < 2 ^ 30

\* sx * a + sy * b as sign and magnitude
AddSign(sx, a, sy, b) ==
  IF sx = 0 THEN sy
  ELSE IF sy = 0 \/ sx = sy THEN sx
  ELSE IF BigCmp(a, b) >= 0 THEN sx ELSE sy

AddMag(sx, a, sy, b) ==
  IF sx = 0 THEN b
  ELSE IF sy = 0 THEN a
  ELSE IF sx = sy THEN BigAdd(a, b)
  ELSE IF BigCmp(a, b) >= 0 THEN BigSub(a, b) ELSE BigSub(b, a)

AddAligned(sx, a, sy, b, e) == Round(AddSign(sx, a, sy, b), AddMag(sx, a, sy, b), e)

AddAt(x, y, e) ==
  AddAligned(NumSign(x), BigShl(NumMant(x), NumExp(x) - e),
             NumSign(y), BigShl(NumMant(y), NumExp(y) - e), e)

\* x + y
NumAdd(x, y) ==
  IF x[1] = 0 /\ y[1] = 0 /\ Small(x[2] + y[2]) THEN Num(x[2] + y[2])
  ELSE IF IsInf(x) THEN x
  ELSE IF IsInf(y) THEN y
  ELSE AddAt(x, y, MinOf(NumExp(x), NumExp(y)))

\* x - y
NumSub(x, y) == NumAdd(x, NumNeg(y))

\* x * y
NumMul(x, y) ==
  IF x[1] = 0 /\ y[1] = 0 /\ AbsInt(x[2]) < Base /\ AbsInt(y[2]) < Base
  THEN Num(x[2] * y[2])
  ELSE IF IsInf(x) \/ IsInf(y) THEN <<2, NumSign(x) * NumSign(y)>>
  ELSE Round(NumSign(x) * NumSign(y), BigMul(NumMant(x), NumMant(y)),
             NumExp(x) + NumExp(y))

\* qr is <<quotient, remainder>>: the quotient gets one more bit, set when the
\* remainder is not 0
DivRound(s, qr, e) ==
  Round(s, BigAdd(BigShl(qr[1], 1), IF qr[2] = <<>> THEN <<>> ELSE <<1>>), e)

\* the dividend is shifted k bits for a quotient of at least 56 bits
DivShifted(x, y, k) ==
  DivRound(NumSign(x) * NumSign(y), BigDivMod(BigShl(NumMant(x), k), NumMant(y)),
           NumExp(x) - NumExp(y) - k - 1)

\* x / y for y # 0
NumDiv(x, y) ==
  IF x[1] = 0 /\ y[1] = 0 /\ y[2] # 0 /\ x[2] % AbsInt(y[2]) = 0
  THEN Num((x[2] \div AbsInt(y[2])) * Sgn(y[2]))
  ELSE IF IsInf(x) THEN <<2, NumSign(x) * NumSign(y)>>
  ELSE IF IsInf(y) THEN Num(0)
  ELSE IF NumSign(x) = 0 THEN Num(0)
  ELSE DivShifted(x, y, MaxOf(0, 56 + BigBitLen(NumMant(y)) - BigBitLen(NumMant(x))))

SqrtRound(n, r, e) ==
  Round(1, BigAdd(BigShl(r, 1), IF BigMul(r, r) = n THEN <<>> ELSE <<1>>), e)

SqrtOf(n, e) == SqrtRound(n, BigSqrt(n), e)

\* m * 2^e = (m * 2^k) * 2^(e - k) with e - k even and m * 2^k of at least 110 bits
SqrtEven(m, e, k) == SqrtOf(BigShl(m, k), ((e - k) \div 2) - 1)

SqrtShifted(m, e, k0) == SqrtEven(m, e, IF (e - k0) % 2 = 0 THEN k0 ELSE k0 + 1)

\* Math.sqrt(x) for x >= 0
NumSqrt(x) ==
  IF NumSign(x) = 0 \/ IsInf(x) THEN x
  ELSE SqrtShifted(NumMant(x), NumExp(x), MaxOf(0, 110 - BigBitLen(NumMant(x))))

CmpAt(x, y, e) ==
  NumSign(x) * BigCmp(BigShl(NumMant(x), NumExp(x) - e), BigShl(NumMant(y), NumExp(y) - e))

\* -1, 0, 1 as x < y, x = y, x > y
NumCmp(x, y) ==
  IF x[1] = 0 /\ y[1] = 0 THEN Sgn(x[2] - y[2])
  ELSE IF IsInf(x) \/ IsInf(y)
       THEN Sgn((IF IsInf(x) THEN 2 * x[2] ELSE NumSign(x))
                - (IF IsInf(y) THEN 2 * y[2] ELSE NumSign(y)))
  ELSE IF NumSign(x) # NumSign(y) THEN Sgn(NumSign(x) - NumSign(y))
  ELSE CmpAt(x, y, MinOf(NumExp(x), NumExp(y)))

NumLt(x, y) == NumCmp(x, y) < 0
NumLe(x, y) == NumCmp(x, y) <= 0
NumGt(x, y) == NumCmp(x, y) > 0
NumGe(x, y) == NumCmp(x, y) >= 0

\* Math.min, Math.max, Math.abs
NumMin(x, y) == IF NumLe(x, y) THEN x ELSE y
NumMax(x, y) == IF NumGe(x, y) THEN x ELSE y
NumAbs(x) == IF NumSign(x) < 0 THEN NumNeg(x) ELSE x

\* acc + f[lo] + ... + f[hi], added left to right as the loops of the source do
RECURSIVE NumSumFrom(_, _, _, _)
NumSumFrom(f, j, hi, acc) ==
  IF Now(acc) /\ j > hi THEN acc ELSE NumSumFrom(f, j + 1, hi, NumAdd(acc, f[j]))

Min3(a, b, c) == MinOf(a, MinOf(b, c))

\* ------------------------------------------------------------------------
\* Sequence normalisation
\* ------------------------------------------------------------------------
SENTINEL == "__NA__"
\* the value standing for JavaScript null / undefined in the input
Null == "<null>"

toTokenLists(data, naSyms) ==
  [r \in DOMAIN data |->
     [i \in DOMAIN data[r] |->
        LET val == data[r][i]
        IN  IF val = Null \/ val = "" THEN SENTINEL
            ELSE IF val \in naSyms THEN SENTINEL
            ELSE val]]

\* the length of the row, trailing padding counted
effectiveLength_WholeRow(seq) == Len(seq)

RECURSIVE effectiveLengthFrom(_, _, _)
effectiveLengthFrom(seq, i, last) ==
  IF i > Len(seq) THEN last
  ELSE effectiveLengthFrom(seq, i + 1, IF seq[i] # SENTINEL THEN i ELSE last)

effectiveLength(seq) == effectiveLengthFrom(seq, 1, 0)

\* ------------------------------------------------------------------------
\* Dissimilarity library.  Rows are 1-based: a[i] is the source's a[i - 1].
\* ------------------------------------------------------------------------
Pad(a, maxLen) == a \o [i \in 1..(maxLen - Len(a)) |-> SENTINEL]

RECURSIVE hammingFrom(_, _, _, _, _)
hammingFrom(aPad, bPad, i, maxLen, dist) ==
  IF i > maxLen THEN dist
  ELSE hammingFrom(aPad, bPad, i + 1, maxLen,
                   IF aPad[i] # bPad[i] THEN dist + 1 ELSE dist)

\* hammingDistance with weighted = false
hammingDistance(a, b) ==
  LET maxLen == MaxOf(Len(a), Len(b))
  IN  Num(hammingFrom(Pad(a, maxLen), Pad(b, maxLen), 1, maxLen, 0))

\* substitution cost of levenshteinDistance and osaDistance
\* the cost of ordinary edit distance
invertedCost_Conventional(x, y) == IF x = y THEN 0 ELSE 1

invertedCost(x, y) == IF x = y THEN 1 ELSE 0

RECURSIVE lvRow(_, _, _, _, _, _)
lvRow(a, b, n, i, prev, curr) ==
  IF Len(curr) = n + 1 THEN curr
  ELSE LET j == Len(curr)
           cost == invertedCost(a[i], b[j])
       IN  lvRow(a, b, n, i, prev,
                 Append(curr, Min3(prev[j + 1] + 1, curr[j] + 1, prev[j] + cost)))

RECURSIVE lvRows(_, _, _, _, _, _)
lvRows(a, b, m, n, i, prev) ==
  IF i > m THEN prev
  ELSE lvRows(a, b, m, n, i + 1, lvRow(a, b, n, i, prev, <<i>>))

levenshteinDistance(a, b, lenA, lenB) ==
  Num(lvRows(a, b, lenA, lenB, 1, [j \in 1..(lenB + 1) |-> j - 1])[lenB + 1])

\* one row of osaDistance's table d; rows are sequences over columns 0..n,
\* held at positions 1..n+1; prev2 is row i-2 (unused when i = 1)
RECURSIVE osaRow(_, _, _, _, _, _, _)
osaRow(a, b, n, i, prev2, prev, curr) ==
  IF Len(curr) = n + 1 THEN curr
  ELSE LET j == Len(curr)
           cost == invertedCost(a[i], b[j])
           v == Min3(prev[j + 1] + 1, curr[j] + 1, prev[j] + cost)
           w == IF i > 1 /\ j > 1 /\ a[i] = b[j - 1] /\ a[i - 1] = b[j]
                THEN MinOf(v, prev2[j - 1] + cost) ELSE v
       IN  osaRow(a, b, n, i, prev2, prev, Append(curr, w))

RECURSIVE osaRows(_, _, _, _, _, _, _)
osaRows(a, b, m, n, i, prev2, prev) ==
  IF i > m THEN prev
  ELSE osaRows(a, b, m, n, i + 1, prev, osaRow(a, b, n, i, prev2, prev, <<i>>))

osaDistance(a, b, lenA, lenB) ==
  IF lenA = 0 THEN Num(lenB)
  ELSE IF lenB = 0 THEN Num(lenA)
  ELSE LET row0 == [j \in 1..(lenB + 1) |-> j - 1]
       IN  Num(osaRows(a, b, lenA, lenB, 1, row0, row0)[lenB + 1])

\* dlDistance's table d is (m+2) x (n+2), indexed from 0 as in the source
\* dlDistance's table with the cost of levenshteinDistance: 1 for a match, 0
\* for a mismatch
RECURSIVE dlCell_InvertedCost(_, _, _, _, _, _, _, _, _)
dlCell_InvertedCost(a, b, m, n, i, j, d, da, db) ==
  IF i > m THEN d[m + 1][n + 1]
  ELSE IF j > n
       THEN dlCell_InvertedCost(a, b, m, n, i + 1, 1, d, [da EXCEPT ![a[i]] = i], 0)
  ELSE LET i1 == da[b[j]]
           j1 == db
           cost == invertedCost(a[i], b[j])
           v == MinOf(MinOf(d[i][j] + cost, d[i + 1][j] + 1),
                      MinOf(d[i][j + 1] + 1,
                            d[i1][j1] + (i - i1 - 1) + 1 + (j - j1 - 1)))
       IN  dlCell_InvertedCost(a, b, m, n, i, j + 1, [d EXCEPT ![i + 1][j + 1] = v], da,
                               IF cost = 0 THEN j ELSE db)

RECURSIVE dlCell(_, _, _, _, _, _, _, _, _)
dlCell(a, b, m, n, i, j, d, da, db) ==
  IF i > m THEN d[m + 1][n + 1]
  ELSE IF j > n THEN dlCell(a, b, m, n, i + 1, 1, d, [da EXCEPT ![a[i]] = i], 0)
  ELSE LET i1 == da[b[j]]
           j1 == db
           cost == IF a[i] = b[j] THEN 0 ELSE 1
           v == MinOf(MinOf(d[i][j] + cost, d[i + 1][j] + 1),
                      MinOf(d[i][j + 1] + 1,
                            d[i1][j1] + (i - i1 - 1) + 1 + (j - j1 - 1)))
       IN  dlCell(a, b, m, n, i, j + 1, [d EXCEPT ![i + 1][j + 1] = v], da,
                  IF cost = 0 THEN j ELSE db)

dlDistance(a, b, lenA, lenB) ==
  IF lenA = 0 THEN Num(lenB)
  ELSE IF lenB = 0 THEN Num(lenA)
  ELSE LET maxDist == lenA + lenB
           d0 == [i \in 0..(lenA + 1) |-> [j \in 0..(lenB + 1) |->
                    IF i = 0 \/ j = 0 THEN maxDist
                    ELSE IF j = 1 THEN i - 1
                    ELSE IF i = 1 THEN j - 1
                    ELSE 0]]
           da0 == [t \in {a[i] : i \in 1..lenA} \cup {b[j] : j \in 1..lenB} |-> 0]
       IN  Num(dlCell(a, b, lenA, lenB, 1, 1, d0, da0, 0))

RECURSIVE lcsRow(_, _, _, _, _, _)
lcsRow(a, b, n, i, prev, curr) ==
  IF Len(curr) = n + 1 THEN curr
  ELSE LET j == Len(curr)
       IN  lcsRow(a, b, n, i, prev,
                  Append(curr, IF a[i] = b[j] THEN prev[j] + 1
                               ELSE MaxOf(prev[j + 1], curr[j])))

RECURSIVE lcsRows(_, _, _, _, _, _)
lcsRows(a, b, m, n, i, prev) ==
  IF i > m THEN prev
  ELSE lcsRows(a, b, m, n, i + 1, lcsRow(a, b, n, i, prev, <<0>>))

\* the lengths of the whole rows, trailing padding included
lcsDistance_FullLength(a, b, lenA, lenB) ==
  Num(MaxOf(Len(a), Len(b))
        - lcsRows(a, b, Len(a), Len(b), 1, [j \in 1..(Len(b) + 1) |-> 0])[Len(b) + 1])

lcsDistance(a, b, lenA, lenB) ==
  Num(MaxOf(lenA, lenB) - lcsRows(a, b, lenA, lenB, 1, [j \in 1..(lenB + 1) |-> 0])[lenB + 1])

\* getQgrams with q = 1 (no caller passes q): the count of every token of the prefix
getQgrams(seq, len) ==
  [gram \in {seq[i] : i \in 1..len} |-> Cardinality({i \in 1..len : seq[i] = gram})]

ProfileGet(profile, key) == IF key \in DOMAIN profile THEN profile[key] ELSE 0

RECURSIVE SumOver(_, _)
SumOver(S, f) ==
  IF S = {} THEN 0
  ELSE LET x == CHOOSE y \in S : TRUE IN f[x] + SumOver(S \ {x}, f)

qgramDistance(a, b, lenA, lenB) ==
  LET pa == getQgrams(a, lenA)
      pb == getQgrams(b, lenB)
      allKeys == DOMAIN pa \cup DOMAIN pb
  IN  Num(SumOver(allKeys, [key \in allKeys |->
                    AbsInt(ProfileGet(pa, key) - ProfileGet(pb, key))]))

cosineDistance(a, b, lenA, lenB) ==
  LET pa == getQgrams(a, lenA)
      pb == getQgrams(b, lenB)
      allKeys == DOMAIN pa \cup DOMAIN pb
      dot   == SumOver(allKeys, [key \in allKeys |-> ProfileGet(pa, key) * ProfileGet(pb, key)])
      normA == SumOver(allKeys, [key \in allKeys |-> ProfileGet(pa, key) * ProfileGet(pa, key)])
      normB == SumOver(allKeys, [key \in allKeys |-> ProfileGet(pb, key) * ProfileGet(pb, key)])
  IN  IF normA = 0 \/ normB = 0 THEN Num(1)
      ELSE NumSub(Num(1), NumDiv(Num(dot), NumMul(NumSqrt(Num(normA)), NumSqrt(Num(normB)))))

jaccardDistance(a, b, lenA, lenB) ==
  LET setA == DOMAIN getQgrams(a, lenA)
      setB == DOMAIN getQgrams(b, lenB)
      intersection == Cardinality(setA \cap setB)
      union == Cardinality(setA) + Cardinality(setB) - intersection
  IN  IF union = 0 THEN Num(0)
      ELSE NumSub(Num(1), NumDiv(Num(intersection), Num(union)))

\* the matching loop of jaroWinklerDistance: <<aMatched, bMatched, matches>>
RECURSIVE jwMatch(_, _, _, _, _, _, _, _, _)
jwMatch(a, b, m, n, matchWindow, i, aMatched, bMatched, matches) ==
  IF i > m THEN <<aMatched, bMatched, matches>>
  ELSE LET lo == MaxOf(1, i - matchWindow)
           hi == MinOf(n, i + matchWindow)
           hits == {j \in lo..hi : ~bMatched[j] /\ a[i] = b[j]}
       IN  IF hits = {}
           THEN jwMatch(a, b, m, n, matchWindow, i + 1, aMatched, bMatched, matches)
           ELSE LET j == CHOOSE x \in hits : \A y \in hits : x <= y
                IN  jwMatch(a, b, m, n, matchWindow, i + 1,
                            [aMatched EXCEPT ![i] = TRUE],
                            [bMatched EXCEPT ![j] = TRUE], matches + 1)

RECURSIVE jwSkip(_, _)
jwSkip(bMatched, bIdx) == IF bMatched[bIdx] THEN bIdx ELSE jwSkip(bMatched, bIdx + 1)

RECURSIVE jwTranspositions(_, _, _, _, _, _, _, _)
jwTranspositions(a, b, m, aMatched, bMatched, i, bIdx, transpositions) ==
  IF i > m THEN transpositions
  ELSE IF ~aMatched[i]
       THEN jwTranspositions(a, b, m, aMatched, bMatched, i + 1, bIdx, transpositions)
  ELSE LET bi == jwSkip(bMatched, bIdx)
       IN  jwTranspositions(a, b, m, aMatched, bMatched, i + 1, bi + 1,
                            IF a[i] # b[bi] THEN transpositions + 1 ELSE transpositions)

RECURSIVE jwPrefix(_, _, _, _)
jwPrefix(a, b, i, maxPrefix) ==
  IF i > maxPrefix \/ a[i] # b[i] THEN i - 1 ELSE jwPrefix(a, b, i + 1, maxPrefix)

jaroWinklerDistance(a, b, p, lenA, lenB) ==
  IF lenA = 0 /\ lenB = 0 THEN Num(0)
  ELSE IF lenA = 0 \/ lenB = 0 THEN Num(1)
  ELSE LET matchWindow == MaxOf(0, (MaxOf(lenA, lenB) \div 2) - 1)
           mt == jwMatch(a, b, lenA, lenB, matchWindow, 1,
                         [i \in 1..lenA |-> FALSE], [j \in 1..lenB |-> FALSE], 0)
           matches == mt[3]
           transpositions == jwTranspositions(a, b, lenA, mt[1], mt[2], 1, 1, 0)
           jaroSim ==
             NumDiv(NumAdd(NumAdd(NumDiv(Num(matches), Num(lenA)),
                                  NumDiv(Num(matches), Num(lenB))),
                           NumDiv(NumSub(Num(matches), NumDiv(Num(transpositions), Num(2))),
                                  Num(matches))),
                    Num(3))
           prefix == jwPrefix(a, b, 1, MinOf(4, MinOf(lenA, lenB)))
       IN  IF matches = 0 THEN Num(1)
           ELSE IF p = Num(0) THEN NumSub(Num(1), jaroSim)
           ELSE NumSub(Num(1),
                       NumAdd(jaroSim, NumMul(NumMul(Num(prefix), p),
                                              NumSub(Num(1), jaroSim))))

SeqMetrics == {"hamming", "lv", "osa", "dl", "lcs", "qgram", "cosine", "jaccard", "jw"}

\* DISTANCE_FUNCS[dissimilarity](a, b, lenA, lenB)
DISTANCE_FUNCS(dissimilarity, a, b, lenA, lenB) ==
  CASE dissimilarity = "hamming" -> hammingDistance(a, b)
    [] dissimilarity = "lv"      -> levenshteinDistance(a, b, lenA, lenB)
    [] dissimilarity = "osa"     -> osaDistance(a, b, lenA, lenB)
    [] dissimilarity = "dl"      -> dlDistance(a, b, lenA, lenB)
    [] dissimilarity = "lcs"     -> lcsDistance(a, b, lenA, lenB)
    [] dissimilarity = "qgram"   -> qgramDistance(a, b, lenA, lenB)
    [] dissimilarity = "cosine"  -> cosineDistance(a, b, lenA, lenB)
    [] dissimilarity = "jaccard" -> jaccardDistance(a, b, lenA, lenB)
    [] dissimilarity = "jw"      -> jaroWinklerDistance(a, b, Num(0), lenA, lenB)

\* a matrix is a function on 0..n-1 of functions on 0..n-1 (Matrix.get / set)
MatrixOf(n, upper(_, _)) ==
  [i \in 0..(n - 1) |-> [j \in 0..(n - 1) |->
     IF i = j THEN Num(0) ELSE IF i < j THEN upper(i, j) ELSE upper(j, i)]]

\* computeDistanceMatrix; sequences is 1-based, observation i is sequences[i + 1].
\* threw: the Error "Unknown dissimilarity" of a name DISTANCE_FUNCS does not hold.
computeDistanceMatrix(sequences, dissimilarity) ==
  LET n == Len(sequences)
      effLens == [i \in 1..n |-> effectiveLength(sequences[i])]
      ham(i, j) == hammingDistance(sequences[i + 1], sequences[j + 1])
      fun(i, j) == DISTANCE_FUNCS(dissimilarity, sequences[i + 1], sequences[j + 1],
                                  effLens[i + 1], effLens[j + 1])
  IN  IF dissimilarity = "hamming" THEN [threw |-> FALSE, dist |-> MatrixOf(n, ham)]
      ELSE IF dissimilarity \notin SeqMetrics THEN [threw |-> TRUE, dist |-> <<>>]
      ELSE [threw |-> FALSE, dist |-> MatrixOf(n, fun)]

RECURSIVE euclideanFrom(_, _, _, _)
euclideanFrom(a, b, i, sum) ==
  IF Now(sum) /\ i > Len(a) THEN sum
  ELSE LET d == NumSub(a[i], b[i])
       IN  euclideanFrom(a, b, i + 1, NumAdd(sum, NumMul(d, d)))

euclideanDistance(a, b) == NumSqrt(euclideanFrom(a, b, 1, Num(0)))

RECURSIVE manhattanFrom(_, _, _, _)
manhattanFrom(a, b, i, sum) ==
  IF Now(sum) /\ i > Len(a) THEN sum
  ELSE manhattanFrom(a, b, i + 1, NumAdd(sum, NumAbs(NumSub(a[i], b[i]))))

manhattanDistance(a, b) == manhattanFrom(a, b, 1, Num(0))

computeNumericDistanceMatrix(data, metric) ==
  LET n == Len(data)
      man(i, j) == manhattanDistance(data[i + 1], data[j + 1])
      euc(i, j) == euclideanDistance(data[i + 1], data[j + 1])
  IN  IF metric = "manhattan" THEN MatrixOf(n, man) ELSE MatrixOf(n, euc)

\* ------------------------------------------------------------------------
\* Silhouette
\* ------------------------------------------------------------------------
\* [...new Set(labels)]: the distinct labels in order of first appearance
RECURSIVE uniqueFrom(_, _, _, _)
uniqueFrom(labels, n, i, acc) ==
  IF i > n - 1 THEN acc
  ELSE uniqueFrom(labels, n, i + 1,
                  IF \E x \in 1..Len(acc) : acc[x] = labels[i] THEN acc
                  ELSE Append(acc, labels[i]))

\* sum and count of dist[i][j] over the j in 0..n-1 that keep(j) selects
RECURSIVE sumWhere(_, _, _, _, _, _)
sumWhere(row, n, j, keep, sum, count) ==
  IF Now(sum) /\ j > n - 1 THEN <<sum, count>>
  ELSE IF keep[j] THEN sumWhere(row, n, j + 1, keep, NumAdd(sum, row[j]), count + 1)
  ELSE sumWhere(row, n, j + 1, keep, sum, count)

\* b(i): the loop over uniqueClusters
RECURSIVE otherMean(_, _, _, _, _, _, _)
otherMean(dist, labels, n, i, uniqueClusters, x, bi) ==
  IF Now(bi) /\ x > Len(uniqueClusters) THEN bi
  ELSE LET c == uniqueClusters[x]
           sc == sumWhere(dist[i], n, 0, [j \in 0..(n - 1) |-> labels[j] = c], Num(0), 0)
       IN  IF c = labels[i] THEN otherMean(dist, labels, n, i, uniqueClusters, x + 1, bi)
           ELSE otherMean(dist, labels, n, i, uniqueClusters, x + 1,
                          IF sc[2] > 0 THEN NumMin(bi, NumDiv(sc[1], Num(sc[2]))) ELSE bi)

\* an observation alone in its cluster counted as 1
RECURSIVE silhouetteFrom_SingletonOne(_, _, _, _, _, _)
silhouetteFrom_SingletonOne(dist, labels, n, uniqueClusters, i, totalScore) ==
  IF i > n - 1 THEN totalScore
  ELSE LET same == sumWhere(dist[i], n, 0,
                            [j \in 0..(n - 1) |-> j # i /\ labels[j] = labels[i]], Num(0), 0)
           ai == NumDiv(same[1], Num(same[2]))
           bi == otherMean(dist, labels, n, i, uniqueClusters, 1, Infinity)
           maxAB == NumMax(ai, bi)
       IN  silhouetteFrom_SingletonOne(dist, labels, n, uniqueClusters, i + 1,
             NumAdd(totalScore,
                    IF same[2] = 0 THEN Num(1)
                    ELSE IF NumGt(maxAB, Num(0)) THEN NumDiv(NumSub(bi, ai), maxAB)
                    ELSE Num(0)))

RECURSIVE silhouetteFrom(_, _, _, _, _, _)
silhouetteFrom(dist, labels, n, uniqueClusters, i, totalScore) ==
  IF Now(totalScore) /\ i > n - 1 THEN totalScore
  ELSE LET same == sumWhere(dist[i], n, 0,
                            [j \in 0..(n - 1) |-> j # i /\ labels[j] = labels[i]], Num(0), 0)
           ai == NumDiv(same[1], Num(same[2]))
           bi == otherMean(dist, labels, n, i, uniqueClusters, 1, Infinity)
           maxAB == NumMax(ai, bi)
       IN  IF same[2] = 0
           THEN silhouetteFrom(dist, labels, n, uniqueClusters, i + 1, totalScore)
           ELSE silhouetteFrom(dist, labels, n, uniqueClusters, i + 1,
                  NumAdd(totalScore,
                         IF NumGt(maxAB, Num(0)) THEN NumDiv(NumSub(bi, ai), maxAB)
                         ELSE Num(0)))

\* without the early return of line 536
silhouetteScore_NoEarlyReturn(dist, labels, n) ==
  NumDiv(silhouetteFrom(dist, labels, n, uniqueFrom(labels, n, 0, <<>>), 0, Num(0)), Num(n))

\* labels is a function on 0..n-1
silhouetteScore(dist, labels, n) ==
  LET uniqueClusters == uniqueFrom(labels, n, 0, <<>>)
  IN  IF Len(uniqueClusters) < 2 THEN Num(0)
      ELSE NumDiv(silhouetteFrom(dist, labels, n, uniqueClusters, 0, Num(0)), Num(n))

\* canonicalize of src/tests/analysis.test.ts: ids renamed in order of first
\* appearance
canonicalize(labels, n) ==
  [i \in 0..(n - 1) |->
     CHOOSE x \in 1..Len(uniqueFrom(labels, n, 0, <<>>)) :
       uniqueFrom(labels, n, 0, <<>>)[x] = labels[i]]

\* ------------------------------------------------------------------------
\* PAM.  Observations are 0..n-1; a medoid list is a sequence whose position
\* p is the source's slot p - 1.
\* ------------------------------------------------------------------------
\* a guard that lets every candidate through
Includes_Never(arr, c) == FALSE

Includes(arr, c) == \E x \in 1..Len(arr) : arr[x] = c

totalDistsOf(dist, n) == [i \in 0..(n - 1) |-> NumSumFrom(dist[i], 0, n - 1, Num(0))]

\* a tie keeps the earlier observation
RECURSIVE firstMedoidFrom_FirstWins(_, _, _, _)
firstMedoidFrom_FirstWins(totalDists, n, i, bestIdx) ==
  IF i > n - 1 THEN bestIdx
  ELSE firstMedoidFrom_FirstWins(totalDists, n, i + 1,
                                 IF NumLt(totalDists[i], totalDists[bestIdx]) THEN i
                                 ELSE bestIdx)

RECURSIVE firstMedoidFrom(_, _, _, _)
firstMedoidFrom(totalDists, n, i, bestIdx) ==
  IF i > n - 1 THEN bestIdx
  ELSE firstMedoidFrom(totalDists, n, i + 1,
                       IF NumLe(totalDists[i], totalDists[bestIdx]) THEN i ELSE bestIdx)

\* BUILD, first medoid (lines 584-595)
firstMedoid(dist, n) == firstMedoidFrom(totalDistsOf(dist, n), n, 1, 0)

gainOf(dist, n, nearestDist, c) ==
  NumSumFrom([i \in 0..(n - 1) |-> NumMax(Num(0), NumSub(nearestDist[i], dist[i][c]))],
             0, n - 1, Num(0))

\* a tie keeps the earlier candidate
RECURSIVE bestCandidateFrom_FirstWins(_, _, _, _, _, _, _)
bestCandidateFrom_FirstWins(dist, n, medoids, nearestDist, c, bestGain, bestCandidate) ==
  IF c > n - 1 THEN bestCandidate
  ELSE IF Includes(medoids, c)
       THEN bestCandidateFrom_FirstWins(dist, n, medoids, nearestDist, c + 1,
                                        bestGain, bestCandidate)
  ELSE IF NumGt(gainOf(dist, n, nearestDist, c), bestGain)
       THEN bestCandidateFrom_FirstWins(dist, n, medoids, nearestDist, c + 1,
                                        gainOf(dist, n, nearestDist, c), c)
       ELSE bestCandidateFrom_FirstWins(dist, n, medoids, nearestDist, c + 1,
                                        bestGain, bestCandidate)

RECURSIVE bestCandidateFrom(_, _, _, _, _, _, _)
bestCandidateFrom(dist, n, medoids, nearestDist, c, bestGain, bestCandidate) ==
  IF c > n - 1 THEN bestCandidate
  ELSE IF Includes(medoids, c)
       THEN bestCandidateFrom(dist, n, medoids, nearestDist, c + 1, bestGain, bestCandidate)
  ELSE LET gain == gainOf(dist, n, nearestDist, c)
       IN  IF NumGe(gain, bestGain)
           THEN bestCandidateFrom(dist, n, medoids, nearestDist, c + 1, gain, c)
           ELSE bestCandidateFrom(dist, n, medoids, nearestDist, c + 1, bestGain, bestCandidate)

\* BUILD, one further medoid (lines 602-614)
nextMedoid(dist, n, medoids, nearestDist) ==
  bestCandidateFrom(dist, n, medoids, nearestDist, 0, NegInfinity, -1)

RECURSIVE minDistFrom(_, _, _, _)
minDistFrom(row, arr, x, minD) ==
  IF Now(minD) /\ x > Len(arr) THEN minD ELSE minDistFrom(row, arr, x + 1, NumMin(minD, row[arr[x]]))

\* total assignment cost of a medoid list (lines 624-629 and 640-645)
costOf(dist, n, arr) ==
  NumSumFrom([i \in 0..(n - 1) |-> minDistFrom(dist[i], arr, 1, Infinity)], 0, n - 1, Num(0))

\* the scan with a replacement of equal cost accepted
RECURSIVE swapScan_AcceptsTies(_, _, _, _, _, _, _, _, _, _)
swapScan_AcceptsTies(dist, n, k, medoidsArr, currentCost, mIdx, c, bestChange, bestMIdx, bestSwap) ==
  IF mIdx > k - 1 THEN <<bestChange, bestMIdx, bestSwap>>
  ELSE IF c > n - 1
       THEN swapScan_AcceptsTies(dist, n, k, medoidsArr, currentCost, mIdx + 1, 0,
                     bestChange, bestMIdx, bestSwap)
  ELSE IF Includes(medoidsArr, c)
       THEN swapScan_AcceptsTies(dist, n, k, medoidsArr, currentCost, mIdx, c + 1,
                     bestChange, bestMIdx, bestSwap)
  ELSE LET trial == [medoidsArr EXCEPT ![mIdx + 1] = c]
           change == NumSub(costOf(dist, n, trial), currentCost)
       IN  IF NumLe(change, bestChange)
           THEN swapScan_AcceptsTies(dist, n, k, medoidsArr, currentCost, mIdx, c + 1, change, mIdx, c)
           ELSE swapScan_AcceptsTies(dist, n, k, medoidsArr, currentCost, mIdx, c + 1,
                         bestChange, bestMIdx, bestSwap)

\* the scan of one SWAP pass over (mIdx, c): <<bestChange, bestMIdx, bestSwap>>
RECURSIVE swapScan(_, _, _, _, _, _, _, _, _, _)
swapScan(dist, n, k, medoidsArr, currentCost, mIdx, c, bestChange, bestMIdx, bestSwap) ==
  IF mIdx > k - 1 THEN <<bestChange, bestMIdx, bestSwap>>
  ELSE IF c > n - 1
       THEN swapScan(dist, n, k, medoidsArr, currentCost, mIdx + 1, 0,
                     bestChange, bestMIdx, bestSwap)
  ELSE IF Includes(medoidsArr, c)
       THEN swapScan(dist, n, k, medoidsArr, currentCost, mIdx, c + 1,
                     bestChange, bestMIdx, bestSwap)
  ELSE LET trial == [medoidsArr EXCEPT ![mIdx + 1] = c]
           change == NumSub(costOf(dist, n, trial), currentCost)
       IN  IF NumLt(change, bestChange)
           THEN swapScan(dist, n, k, medoidsArr, currentCost, mIdx, c + 1, change, mIdx, c)
           ELSE swapScan(dist, n, k, medoidsArr, currentCost, mIdx, c + 1,
                         bestChange, bestMIdx, bestSwap)

\* a pass that evaluates no replacement
swapPass_NoScan(dist, n, k, medoidsArr) == <<Num(0), -1, -1>>

\* one SWAP pass (lines 624-653)
swapPass(dist, n, k, medoidsArr) ==
  swapScan(dist, n, k, medoidsArr, costOf(dist, n, medoidsArr), 0, 0, Num(0), -1, -1)

\* the medoids in the order the swap phase leaves them
sortedMedoidsOf_Unsorted(medoidsArr) == medoidsArr

\* [...medoidsArr].sort((a, b) => a - b)
sortedMedoidsOf(medoidsArr) == SortSeq(medoidsArr, LAMBDA a, b : a < b)

\* a tie goes to the later medoid
RECURSIVE nearestSlotFrom_LastWins(_, _, _, _, _, _)
nearestSlotFrom_LastWins(row, sortedMedoids, k, m, minD, bestM) ==
  IF m > k - 1 THEN bestM
  ELSE IF NumLe(row[sortedMedoids[m + 1]], minD)
       THEN nearestSlotFrom_LastWins(row, sortedMedoids, k, m + 1,
                                     row[sortedMedoids[m + 1]], m)
       ELSE nearestSlotFrom_LastWins(row, sortedMedoids, k, m + 1, minD, bestM)

RECURSIVE nearestSlotFrom(_, _, _, _, _, _)
nearestSlotFrom(row, sortedMedoids, k, m, minD, bestM) ==
  IF m > k - 1 THEN bestM
  ELSE LET d == row[sortedMedoids[m + 1]]
       IN  IF NumLt(d, minD) THEN nearestSlotFrom(row, sortedMedoids, k, m + 1, d, m)
           ELSE nearestSlotFrom(row, sortedMedoids, k, m + 1, minD, bestM)

\* the slots counted in the order the build and swap phases left the medoids
pamAssign_BuildOrder(dist, n, k, medoidsArr) ==
  [i \in 0..(n - 1) |-> nearestSlotFrom(dist[i], medoidsArr, k, 0, Infinity, 0) + 1]

\* final assignment (lines 662-677)
pamAssign(dist, n, k, medoidsArr) ==
  LET sortedMedoids == sortedMedoidsOf(medoidsArr)
  IN  [i \in 0..(n - 1) |-> nearestSlotFrom(dist[i], sortedMedoids, k, 0, Infinity, 0) + 1]

\* ------------------------------------------------------------------------
\* Hierarchical clustering (Lance-Williams).  active is the Set of live
\* cluster ids in insertion order, which is ascending: a sequence.
\* ------------------------------------------------------------------------
\* the working table of line 692, squared for ward.D2 (lines 697-703)
\* the working copy without the squaring for 'ward.D2'
workingCopy_NoSquaring(dist, n, method) ==
  [i \in 0..(n - 1) |-> [j \in 0..(n - 1) |-> dist[i][j]]]

workingCopy(dist, n, method) ==
  [i \in 0..(n - 1) |-> [j \in 0..(n - 1) |->
     IF method = "ward.D2" THEN NumMul(dist[i][j], dist[i][j]) ELSE dist[i][j]]]

\* the scan with a pair at the same distance taking the place of the one found
RECURSIVE closestFrom_LastWins(_, _, _, _, _, _, _)
closestFrom_LastWins(d, activeArr, a, b, bestDist, bestI, bestJ) ==
  IF a > Len(activeArr) THEN <<bestI, bestJ>>
  ELSE IF b > Len(activeArr)
       THEN closestFrom_LastWins(d, activeArr, a + 1, a + 2, bestDist, bestI, bestJ)
  ELSE LET ci == activeArr[a]
           cj == activeArr[b]
       IN  IF NumLe(d[ci][cj], bestDist)
           THEN closestFrom_LastWins(d, activeArr, a, b + 1, d[ci][cj], ci, cj)
           ELSE closestFrom_LastWins(d, activeArr, a, b + 1, bestDist, bestI, bestJ)

\* the closest-pair scan (lines 707-722): <<bestI, bestJ>>
RECURSIVE closestFrom(_, _, _, _, _, _, _)
closestFrom(d, activeArr, a, b, bestDist, bestI, bestJ) ==
  IF a > Len(activeArr) THEN <<bestI, bestJ>>
  ELSE IF b > Len(activeArr)
       THEN closestFrom(d, activeArr, a + 1, a + 2, bestDist, bestI, bestJ)
  ELSE LET ci == activeArr[a]
           cj == activeArr[b]
       IN  IF NumLt(d[ci][cj], bestDist)
           THEN closestFrom(d, activeArr, a, b + 1, d[ci][cj], ci, cj)
           ELSE closestFrom(d, activeArr, a, b + 1, bestDist, bestI, bestJ)

closestPair(d, activeArr) == closestFrom(d, activeArr, 1, 2, Infinity, -1, -1)

\* the switch with a name it does not know taken as 'single'
lanceWilliams_UnknownSingle(method, ni, nj, nk, dik, djk, dij) ==
  CASE method = "single"   -> NumMin(dik, djk)
    [] method = "complete" -> NumMax(dik, djk)
    [] method = "mcquitty" -> NumDiv(NumAdd(dik, djk), Num(2))
    [] method = "median"   ->
         NumSub(NumDiv(NumAdd(dik, djk), Num(2)), NumDiv(dij, Num(4)))
    [] method = "centroid" ->
         NumSub(NumDiv(NumAdd(NumMul(Num(ni), dik), NumMul(Num(nj), djk)), Num(ni + nj)),
                NumDiv(NumMul(Num(ni * nj), dij), Num((ni + nj) * (ni + nj))))
    [] method \in {"ward.D", "ward.D2"} ->
         NumDiv(NumSub(NumAdd(NumMul(Num(ni + nk), dik), NumMul(Num(nj + nk), djk)),
                       NumMul(Num(nk), dij)),
                Num(ni + nj + nk))
    [] method = "average" ->
         NumDiv(NumAdd(NumMul(Num(ni), dik), NumMul(Num(nj), djk)), Num(ni + nj))
    [] OTHER -> NumMin(dik, djk)

\* 'average' without the weights ni and nj
lanceWilliams_Unweighted(method, ni, nj, nk, dik, djk, dij) ==
  IF method = "average" THEN NumDiv(NumAdd(dik, djk), Num(2))
  ELSE lanceWilliams_UnknownSingle(method, ni, nj, nk, dik, djk, dij)

\* the switch of lines 736-760; ni, nj, nk are cluster sizes
lanceWilliams(method, ni, nj, nk, dik, djk, dij) ==
  CASE method = "single"   -> NumMin(dik, djk)
    [] method = "complete" -> NumMax(dik, djk)
    [] method = "mcquitty" -> NumDiv(NumAdd(dik, djk), Num(2))
    [] method = "median"   ->
         NumSub(NumDiv(NumAdd(dik, djk), Num(2)), NumDiv(dij, Num(4)))
    [] method = "centroid" ->
         NumSub(NumDiv(NumAdd(NumMul(Num(ni), dik), NumMul(Num(nj), djk)), Num(ni + nj)),
                NumDiv(NumMul(Num(ni * nj), dij), Num((ni + nj) * (ni + nj))))
    [] method \in {"ward.D", "ward.D2"} ->
         NumDiv(NumSub(NumAdd(NumMul(Num(ni + nk), dik), NumMul(Num(nj + nk), djk)),
                       NumMul(Num(nk), dij)),
                Num(ni + nj + nk))
    [] OTHER ->
         NumDiv(NumAdd(NumMul(Num(ni), dik), NumMul(Num(nj), djk)), Num(ni + nj))

\* the absorbed cluster stays active
Remove_Nothing(arr, x) == arr

Remove(arr, x) == SelectSeq(arr, LAMBDA y : y # x)

\* the merge with the new distance written to d[bestI][ck] only
hierMerge_OneSided(h, method) ==
  LET best  == closestPair(h.d, h.active)
      bestI == best[1]
      bestJ == best[2]
      ni    == h.sizes[bestI]
      nj    == h.sizes[bestJ]
      dij   == h.d[bestI][bestJ]
      others == {h.active[x] : x \in 1..Len(h.active)} \ {bestI, bestJ}
      newDist == [ck \in others |->
                    lanceWilliams(method, ni, nj, h.sizes[ck],
                                  h.d[bestI][ck], h.d[bestJ][ck], dij)]
  IN  [d |-> [i \in DOMAIN h.d |-> [j \in DOMAIN h.d |->
                IF i = bestI /\ j \in others THEN newDist[j]
                ELSE h.d[i][j]]],
       clusters |-> [h.clusters EXCEPT ![bestI] = h.clusters[bestI] \o h.clusters[bestJ]],
       sizes |-> [h.sizes EXCEPT ![bestI] = ni + nj],
       active |-> Remove(h.active, bestJ)]

\* one iteration of the merge loop (lines 706-769) on the state h
hierMerge(h, method) ==
  LET best  == closestPair(h.d, h.active)
      bestI == best[1]
      bestJ == best[2]
      ni    == h.sizes[bestI]
      nj    == h.sizes[bestJ]
      dij   == h.d[bestI][bestJ]
      others == {h.active[x] : x \in 1..Len(h.active)} \ {bestI, bestJ}
      newDist == [ck \in others |->
                    lanceWilliams(method, ni, nj, h.sizes[ck],
                                  h.d[bestI][ck], h.d[bestJ][ck], dij)]
  IN  [d |-> [i \in DOMAIN h.d |-> [j \in DOMAIN h.d |->
                IF i = bestI /\ j \in others THEN newDist[j]
                ELSE IF j = bestI /\ i \in others THEN newDist[i]
                ELSE h.d[i][j]]],
       clusters |-> [h.clusters EXCEPT ![bestI] = h.clusters[bestI] \o h.clusters[bestJ]],
       sizes |-> [h.sizes EXCEPT ![bestI] = ni + nj],
       active |-> Remove(h.active, bestJ)]

\* the labels counted from 0
hierLabels_ZeroBased(h, n) ==
  [point \in 0..(n - 1) |->
     IF \E x \in 1..Len(h.active) : Includes(h.clusters[h.active[x]], point)
     THEN (CHOOSE x \in 1..Len(h.active) :
             /\ Includes(h.clusters[h.active[x]], point)
             /\ \A y \in (x + 1)..Len(h.active) : ~Includes(h.clusters[h.active[y]], point)) - 1
     ELSE 0]

\* label assignment (lines 773-782)
\* the surviving clusters numbered from the last one to the first
hierLabels_Descending(h, n) ==
  [point \in 0..(n - 1) |->
     IF \E x \in 1..Len(h.active) : Includes(h.clusters[h.active[x]], point)
     THEN Len(h.active) + 1 -
          (CHOOSE x \in 1..Len(h.active) : Includes(h.clusters[h.active[x]], point))
     ELSE 0]

hierLabels(h, n) ==
  [point \in 0..(n - 1) |->
     IF \E x \in 1..Len(h.active) : Includes(h.clusters[h.active[x]], point)
     THEN CHOOSE x \in 1..Len(h.active) :
            /\ Includes(h.clusters[h.active[x]], point)
            /\ \A y \in (x + 1)..Len(h.active) : ~Includes(h.clusters[h.active[y]], point)
     ELSE 0]

RECURSIVE hierLoop(_, _, _)
hierLoop(h, k, method) ==
  IF Len(h.active) > k THEN hierLoop(hierMerge(h, method), k, method) ELSE h

\* hierarchical(dist, k, method) (lines 683-783)
hierarchical(dist, n, k, method) ==
  hierLabels(hierLoop([d |-> workingCopy(dist, n, method),
                       clusters |-> [i \in 0..(n - 1) |-> <<i>>],
                       sizes |-> [i \in 0..(n - 1) |-> 1],
                       active |-> [x \in 1..n |-> x - 1]], k, method), n)

\* ------------------------------------------------------------------------
\* The facade: one call of clusterData / clusterSequences, step by step
\* ------------------------------------------------------------------------
\* an option the caller left out
Undefined == "<undefined>"

NullishOr(v, default) == IF v = Undefined THEN default ELSE v

VARIABLES
  call,          \* the arguments: [kind, rows, k, dissimilarity, method, naSyms]
  pc,            \* position in the call
  error,         \* message of the Error thrown, "" while none
  method,        \* options?.method ?? 'pam'
  dissimilarity, \* options?.dissimilarity ?? 'hamming' / 'euclidean'
  distance,      \* dist: the matrix built for the call, <<>> before
  pairs,         \* number of pairwise distances computed so far
  medoids,       \* pam: medoids, then medoidsArr
  nearestDist,   \* pam: nearestDist
  iter,          \* pam: SWAP passes started
  hier,          \* hierarchical: [d, clusters, sizes, active]
  assignments,   \* the partition, <<>> before
  sil,           \* the silhouette of the partition, <<>> before
  result         \* the ClusterResult returned, <<>> before

vars == <<call, pc, error, method, dissimilarity, distance, pairs, medoids,
          nearestDist, iter, hier, assignments, sil, result>>

\* isNumericData (lines 787-791) on the tagged input
isNumericData(c) == c.kind = "num" /\ Len(c.rows) > 0 /\ Len(c.rows[1]) > 0

\* the path clusterData takes (lines 815-859)
NumericPath(c) == c.kind # "tna" /\ isNumericData(c)

\* n: the number of observations
NObs == Len(call.rows)

NoHier == [d |-> <<>>, clusters |-> <<>>, sizes |-> <<>>, active |-> <<>>]

\* the check of k without its upper bound
Validate_NoUpperBound ==
  /\ pc = "call"
  /\ method' = NullishOr(call.method, "pam")
  /\ dissimilarity' = NullishOr(call.dissimilarity,
                                IF NumericPath(call) THEN "euclidean" ELSE "hamming")
  /\ IF call.k < 2
     THEN pc' = "error" /\ error' = "k must be >= 2"
     ELSE pc' = "dist" /\ error' = ""
  /\ UNCHANGED <<call, distance, pairs, medoids, nearestDist, iter, hier,
                 assignments, sil, result>>

\* lines 812-825 and 874-880: defaults, then the check of k
Validate ==
  /\ pc = "call"
  /\ method' = NullishOr(call.method, "pam")
  /\ dissimilarity' = NullishOr(call.dissimilarity,
                                IF NumericPath(call) THEN "euclidean" ELSE "hamming")
  /\ IF call.k < 2
     THEN pc' = "error" /\ error' = "k must be >= 2"
     ELSE IF call.k > NObs
     THEN /\ pc' = "error"
          /\ error' = IF NumericPath(call) THEN "k exceeds number of observations"
                      ELSE "k exceeds number of sequences"
     ELSE pc' = "dist" /\ error' = ""
  /\ UNCHANGED <<call, distance, pairs, medoids, nearestDist, iter, hier,
                 assignments, sil, result>>

NPairs(n) == (n * (n - 1)) \div 2

\* lines 827 and 882-883: the distance matrix
BuildDistance ==
  /\ pc = "dist"
  /\ IF NumericPath(call)
     THEN /\ distance' = computeNumericDistanceMatrix(call.rows, dissimilarity)
          /\ pairs' = pairs + NPairs(NObs)
          /\ pc' = "cluster"
          /\ error' = error
     ELSE LET sequences == toTokenLists(call.rows, NullishOr(call.naSyms, {"*", "%"}))
              r == computeDistanceMatrix(sequences, dissimilarity)
          IN  IF r.threw
              THEN /\ pc' = "error"
                   /\ error' = "Unknown dissimilarity"
                   /\ UNCHANGED <<distance, pairs>>
              ELSE /\ distance' = r.dist
                   /\ pairs' = pairs + NPairs(NObs)
                   /\ pc' = "cluster"
                   /\ error' = error
  /\ UNCHANGED <<call, method, dissimilarity, medoids, nearestDist, iter, hier,
                 assignments, sil, result>>

\* pam, BUILD: the first medoid and nearestDist (lines 581-598)
PamFirst ==
  /\ pc = "cluster"
  /\ method = "pam"
  /\ LET bestIdx == firstMedoid(distance, NObs)
     IN  /\ medoids' = <<bestIdx>>
         /\ nearestDist' = [i \in 0..(NObs - 1) |-> distance[i][bestIdx]]
  /\ pc' = IF 1 < call.k THEN "build" ELSE "swap"
  /\ UNCHANGED <<call, error, method, dissimilarity, distance, pairs, iter, hier,
                 assignments, sil, result>>

\* pam, BUILD: one iteration of the loop of lines 601-619
PamBuild ==
  /\ pc = "build"
  /\ LET bestCandidate == nextMedoid(distance, NObs, medoids, nearestDist)
     IN  /\ medoids' = Append(medoids, bestCandidate)
         /\ nearestDist' = [i \in 0..(NObs - 1) |->
                              NumMin(nearestDist[i], distance[i][bestCandidate])]
         /\ pc' = IF Len(medoids) + 1 < call.k THEN "build" ELSE "swap"
  /\ UNCHANGED <<call, error, method, dissimilarity, distance, pairs, iter, hier,
                 assignments, sil, result>>

MaxIter == 100

\* pam, SWAP: one pass of the loop of lines 623-660
PamSwap ==
  /\ pc = "swap"
  /\ LET best == swapPass(distance, NObs, call.k, medoids)
         bestMIdx == best[2]
         bestSwap == best[3]
     IN  IF bestMIdx >= 0
         THEN /\ medoids' = [medoids EXCEPT ![bestMIdx + 1] = bestSwap]
              /\ iter' = iter + 1
              /\ pc' = IF iter + 1 < MaxIter THEN "swap" ELSE "assign"
         ELSE /\ pc' = "assign"
              /\ UNCHANGED <<medoids, iter>>
  /\ UNCHANGED <<call, error, method, dissimilarity, distance, pairs, nearestDist,
                 hier, assignments, sil, result>>

\* pam: sort the medoids and assign (lines 662-677)
PamAssign ==
  /\ pc = "assign"
  /\ assignments' = pamAssign(distance, NObs, call.k, medoids)
  /\ pc' = "score"
  /\ UNCHANGED <<call, error, method, dissimilarity, distance, pairs, medoids,
                 nearestDist, iter, hier, sil, result>>

\* hierarchical: initialisation (lines 684-703)
HierInit ==
  /\ pc = "cluster"
  /\ method # "pam"
  /\ hier' = [d |-> workingCopy(distance, NObs, method),
              clusters |-> [i \in 0..(NObs - 1) |-> <<i>>],
              sizes |-> [i \in 0..(NObs - 1) |-> 1],
              active |-> [x \in 1..NObs |-> x - 1]]
  /\ pc' = "merge"
  /\ UNCHANGED <<call, error, method, dissimilarity, distance, pairs, medoids,
                 nearestDist, iter, assignments, sil, result>>

\* the merge written through to the matrix of the call, as if the working
\* table were the matrix itself and not a copy
HierMerge_InPlace ==
  /\ pc = "merge"
  /\ Len(hier.active) > call.k
  /\ hier' = hierMerge(hier, method)
  /\ distance' = hier'.d
  /\ UNCHANGED <<call, pc, error, method, dissimilarity, pairs, medoids,
                 nearestDist, iter, assignments, sil, result>>

\* hierarchical: one iteration of the loop of lines 705-770
HierMerge ==
  /\ pc = "merge"
  /\ Len(hier.active) > call.k
  /\ hier' = hierMerge(hier, method)
  /\ UNCHANGED <<call, pc, error, method, dissimilarity, distance, pairs, medoids,
                 nearestDist, iter, assignments, sil, result>>

\* hierarchical: the loop ends, labels are assigned (lines 772-782)
HierLabel ==
  /\ pc = "merge"
  /\ Len(hier.active) <= call.k
  /\ assignments' = hierLabels(hier, NObs)
  /\ pc' = "score"
  /\ UNCHANGED <<call, error, method, dissimilarity, distance, pairs, medoids,
                 nearestDist, iter, hier, sil, result>>

\* the count for id c taken at c - 1
sizesOf_ZeroBased(labels, n, k) ==
  [c \in 1..k |-> Cardinality({i \in 0..(n - 1) : labels[i] = c - 1})]

\* sizes (lines 838-841 and 894-897)
sizesOf(labels, n, k) ==
  [c \in 1..k |-> Cardinality({i \in 0..(n - 1) : labels[i] = c})]

\* String(v) of a numeric cell
StringOf(v) == ToString(v[2])

\* the silhouette of the partition (lines 836 and 892)
Silhouette ==
  /\ pc = "score"
  /\ sil' = silhouetteScore(distance, assignments, NObs)
  /\ pc' = "return"
  /\ UNCHANGED <<call, error, method, dissimilarity, distance, pairs, medoids,
                 nearestDist, iter, hier, assignments, result>>

\* the sizes and the result object (lines 838-855 and 894-908)
Return ==
  /\ pc = "return"
  /\ result' = [data |-> IF NumericPath(call)
                         THEN [r \in DOMAIN call.rows |->
                                 [i \in DOMAIN call.rows[r] |-> StringOf(call.rows[r][i])]]
                         ELSE call.rows,
                k |-> call.k,
                assignments |-> assignments,
                silhouette |-> sil,
                sizes |-> sizesOf(assignments, NObs, call.k),
                method |-> method,
                distance |-> distance,
                dissimilarity |-> dissimilarity]
  /\ pc' = "done"
  /\ UNCHANGED <<call, error, method, dissimilarity, distance, pairs, medoids,
                 nearestDist, iter, hier, assignments, sil>>

Next ==
  \/ Validate
  \/ BuildDistance
  \/ PamFirst
  \/ PamBuild
  \/ PamSwap
  \/ PamAssign
  \/ HierInit
  \/ HierMerge
  \/ HierLabel
  \/ Silhouette
  \/ Return

\* the state a call starts in
Start(c) ==
  /\ call = c
  /\ pc = "call"
  /\ error = ""
  /\ method = Undefined
  /\ dissimilarity = Undefined
  /\ distance = <<>>
  /\ pairs = 0
  /\ medoids = <<>>
  /\ nearestDist = <<>>
  /\ iter = 0
  /\ hier = NoHier
  /\ assignments = <<>>
  /\ sil = <<>>
  /\ result = <<>>

\* ------------------------------------------------------------------------
\* Inputs
\* ------------------------------------------------------------------------
\* all sequences of at most n elements of S
SeqsUpTo(S, n) == UNION {[1..m -> S] : m \in 0..n}

\* all sequences of lo to hi elements of S
SeqsOf(S, lo, hi) == UNION {[1..m -> S] : m \in lo..hi}

\* the six sequences of src/tests/analysis.test.ts
TestSequences ==
  <<<<"A", "B", "C">>, <<"C", "A", "B">>, <<"A", "B", "A">>,
    <<"B", "C", "A">>, <<"A", "C", "B">>, <<"C", "B", "A">>>>

MaxRows == 2

SeqRowPool == {<<"A", "B", "C">>, <<"A", "B", "A">>, <<"C", "*">>}

NumRowPool == {<<Num(0), Num(0)>>, <<Num(1), Num(1)>>, <<Num(4), Num(-1)>>}

DissPool == {Undefined, "euclidean", "manhattan", "bogus"} \cup SeqMetrics

MethodPool == {Undefined, "pam", "complete", "ward.D2", "average", "hierarchical"}

\* the calls of clusterData / clusterSequences the facade is driven with
Calls ==
  [kind : {"seq", "tna"}, rows : SeqsUpTo(SeqRowPool, MaxRows), k : 0..(MaxRows + 1),
   dissimilarity : DissPool, method : MethodPool, naSyms : {Undefined}]
  \cup
  [kind : {"num"}, rows : SeqsUpTo(NumRowPool, MaxRows), k : 0..(MaxRows + 1),
   dissimilarity : DissPool, method : MethodPool, naSyms : {Undefined}]
  \cup
  [kind : {"seq", "tna"}, rows : {TestSequences}, k : {2},
   dissimilarity : DissPool, method : MethodPool, naSyms : {Undefined}]

Init == \E c \in Calls : Start(c)

Spec == Init /\ [][Next]_vars

\* ------------------------------------------------------------------------
\* The distance matrices of all pairs of short rows
\* ------------------------------------------------------------------------
MaxLen == 3

\* rows of at most MaxLen cells: two states and a missing cell
TokenRows == SeqsUpTo({"A", "B", Null}, MaxLen)

Half == <<1, 1, -1, <<1>>>>

VectorRows == SeqsOf({Num(0), Num(1), Num(-3), Half}, 2, 2)

DistCalls ==
  [kind : {"seq"}, rows : SeqsOf(TokenRows, 2, 2), k : {2},
   dissimilarity : SeqMetrics, method : {Undefined}, naSyms : {Undefined}]
  \cup
  [kind : {"num"}, rows : SeqsOf(VectorRows, 2, 2), k : {2},
   dissimilarity : {"euclidean", "manhattan"}, method : {Undefined}, naSyms : {Undefined}]

InitDist == \E c \in DistCalls : Start(c)

\* the call up to the distance matrix
NextDist ==
  \/ Validate
  \/ BuildDistance

SpecDist == InitDist /\ [][NextDist]_vars

\* ------------------------------------------------------------------------
\* The two solvers on the matrices of small sets of points, duplicates included
\* ------------------------------------------------------------------------
MaxObs == 4

PointPool == {<<Num(0), Num(0)>>, <<Num(1), Num(1)>>, <<Num(4), Num(-1)>>, <<Num(0), Num(3)>>}

\* the calls with 2 <= k <= n
ValidCalls(pool, methods) ==
  {c \in [kind : {"num"}, rows : SeqsOf(pool, 2, MaxObs), k : 2..MaxObs,
          dissimilarity : {"euclidean", "manhattan"}, method : methods,
          naSyms : {Undefined}] : c.k <= Len(c.rows)}

InitPam == \E c \in ValidCalls(PointPool, {"pam"}) : Start(c)

\* a call with method 'pam'
NextPam ==
  \/ Validate
  \/ BuildDistance
  \/ PamFirst
  \/ PamBuild
  \/ PamSwap
  \/ PamAssign
  \/ Silhouette
  \/ Return

SpecPam == InitPam /\ [][NextPam]_vars

Linkages ==
  {"single", "complete", "average", "mcquitty", "median", "centroid", "ward.D", "ward.D2"}

\* four points on a line, at 0, 1, 9 and 19
LinePool == {<<Num(0), Num(0)>>, <<Num(1), Num(0)>>, <<Num(9), Num(0)>>, <<Num(19), Num(0)>>}

\* the four points of the line in every order, clustered by the two Ward rules
WardCalls ==
  {c \in [kind : {"num"}, rows : SeqsOf(LinePool, MaxObs, MaxObs), k : 2..MaxObs,
          dissimilarity : {"euclidean", "manhattan"}, method : {"ward.D", "ward.D2"},
          naSyms : {Undefined}] :
     \A x, y \in 1..MaxObs : x # y => c.rows[x] # c.rows[y]}

InitHier == \E c \in ValidCalls(NumRowPool, Linkages) \cup WardCalls : Start(c)

\* a call with a linkage for method
NextHier ==
  \/ Validate
  \/ BuildDistance
  \/ HierInit
  \/ HierMerge
  \/ HierLabel
  \/ Silhouette
  \/ Return

SpecHier == InitHier /\ [][NextHier]_vars

\* ------------------------------------------------------------------------
\* Properties
\* ------------------------------------------------------------------------
\* the solver has returned its partition
Clustered == pc \in {"score", "return", "done"}

\* one id per observation, every id in 1..k
IdsInRange(labels, n, k) ==
  /\ DOMAIN labels = 0..(n - 1)
  /\ \A i \in 0..(n - 1) : labels[i] \in 1..k

\* every id of 1..k is the id of some observation
EveryIdUsed(labels, n, k) == \A c \in 1..k : \E i \in 0..(n - 1) : labels[i] = c

\* two distinct observations at distance 0
ZeroPair(dist, n) == \E i, j \in 0..(n - 1) : i # j /\ dist[i][j] = Num(0)

\* C1: for every distance matrix and every k with 2 <= k <= n the partition pam
\* returns has one id per observation, every id in 1..k, and every id of 1..k
\* is used, also when distinct observations are at distance 0 from each other
C1_PamUsesEveryId ==
  (Clustered /\ method = "pam") =>
    /\ IdsInRange(assignments, NObs, call.k)
    /\ EveryIdUsed(assignments, NObs, call.k)

\* C2: for every distance matrix, every linkage and every k with 2 <= k <= n the
\* partition the hierarchical solver returns has one id per observation, every
\* id in 1..k, and every id of 1..k is used
C2_HierUsesEveryId ==
  (Clustered /\ method \in Linkages) =>
    /\ IdsInRange(assignments, NObs, call.k)
    /\ EveryIdUsed(assignments, NObs, call.k)

\* a call returned a hierarchical partition of data that holds a duplicate row,
\* after at least one merge
C2_Witness ==
  /\ pc = "done"
  /\ method \in Linkages
  /\ NObs > call.k
  /\ ZeroPair(distance, NObs)
  /\ EveryIdUsed(result.assignments, NObs, call.k)

\* k is outside 2..n
InvalidK == call.k < 2 \/ call.k > NObs

\* C3: clusterData and clusterSequences fail whenever k < 2 or k > n, on the
\* sequence path, the prepared-container path and the numeric path; the call has
\* computed no pairwise distance by then and returns no result
C3_InvalidKFails ==
  (pc # "call" /\ InvalidK) =>
    /\ pc = "error"
    /\ error \in {"k must be >= 2", "k exceeds number of observations",
                  "k exceeds number of sequences"}
    /\ pairs = 0
    /\ distance = <<>>
    /\ result = <<>>

\* a call on the numeric path with k = n + 1 has failed
C3_Witness ==
  /\ pc = "error"
  /\ NumericPath(call)
  /\ NObs >= 2
  /\ call.k = NObs + 1
  /\ error = "k exceeds number of observations"
  /\ pairs = 0

\* the names the input kind of the call supports
Supported(c) == IF NumericPath(c) THEN {"euclidean", "manhattan"} ELSE SeqMetrics

\* C4: a dissimilarity name outside the supported set of the input kind is rejected
\* with an error at dispatch, before the distance matrix is built, on every
\* path; no other metric is silently used in its place
C4_UnknownDissimilarityRejected ==
  (pc \notin {"call", "dist"} /\ ~InvalidK /\ dissimilarity \notin Supported(call)) =>
    /\ pc = "error"
    /\ error = "Unknown dissimilarity"
    /\ distance = <<>>
    /\ result = <<>>

\* C5: the distance matrix of every valid call is symmetric, has a zero
\* diagonal and entries >= 0, and entries <= 1 for jaccard, jw and cosine
C5_DistanceMatrixShape ==
  (pc = "cluster") =>
    \A i, j \in 0..(NObs - 1) :
      /\ distance[i][j] = distance[j][i]
      /\ distance[i][i] = Num(0)
      /\ NumGe(distance[i][j], Num(0))
      /\ dissimilarity \in {"jaccard", "jw", "cosine"} => NumLe(distance[i][j], Num(1))

\* the matrix has no negative entry
NonNegative(dist, n) == \A i, j \in 0..(n - 1) : NumGe(dist[i][j], Num(0))

\* the ids a partition uses
IdsOf(labels) == {labels[i] : i \in DOMAIN labels}

\* C6: on a symmetric non-negative distance matrix the silhouette of a
\* partition lies in [-1, 1], and is exactly 0 when the partition uses fewer
\* than 2 distinct ids
C6_SilhouetteRange ==
  (pc \in {"return", "done"} /\ NonNegative(distance, NObs)) =>
    /\ NumGe(sil, Num(-1))
    /\ NumLe(sil, Num(1))
    /\ Cardinality(IdsOf(assignments)) < 2 => sil = Num(0)

\* the silhouette of a partition of three or more observations that uses one id
\* only has been computed
C6_Witness ==
  /\ pc = "return"
  /\ NObs >= 3
  /\ NonNegative(distance, NObs)
  /\ Cardinality(IdsOf(assignments)) = 1
  /\ sil = Num(0)

\* the array <<l1, ..., ln>> as labels of the observations 0..n-1
Labels(arr) == [i \in 0..(Len(arr) - 1) |-> arr[i + 1]]

\* a finished call on the six test sequences with k = 2 and method pam
TestCall(name) ==
  /\ pc = "done"
  /\ call.kind = "seq"
  /\ call.rows = TestSequences
  /\ call.k = 2
  /\ dissimilarity = name
  /\ method = "pam"

\* C8: on the six test sequences with k = 2, hamming and pam the result holds the
\* assignments [1,2,1,1,2,1] and the silhouette 359/1485
C8_HammingPam ==
  TestCall("hamming") =>
    /\ result.assignments = Labels(<<1, 2, 1, 1, 2, 1>>)
    /\ result.silhouette = NumDiv(Num(359), Num(1485))

\* the call with 'hamming' and 'pam' given explicitly has returned two clusters
\* of 4 and 2 sequences
C8_Witness ==
  /\ TestCall("hamming")
  /\ call.dissimilarity = "hamming"
  /\ call.method = "pam"
  /\ result.sizes = <<4, 2>>

\* C9: on the six test sequences with k = 2, qgram and pam the partition is
\* [1,1,2,1,1,1] after first-seen renaming of the ids (only [A,B,A] is alone) and
\* the silhouette is 5/6: five observations contribute 1, the singleton 0
C9_QgramPam ==
  TestCall("qgram") =>
    /\ canonicalize(result.assignments, 6) = Labels(<<1, 1, 2, 1, 1, 1>>)
    /\ result.silhouette = NumDiv(Num(5), Num(6))

\* the call with 'qgram' has returned, [A,B,A] alone in its cluster
C9_Witness ==
  /\ TestCall("qgram")
  /\ call.dissimilarity = "qgram"
  /\ \A i \in 0..5 : i # 2 => result.assignments[i] # result.assignments[2]
  /\ result.sizes \in {<<1, 5>>, <<5, 1>>}

\* the two rows of the call hold the same tokens
SameTokens ==
  /\ call.kind = "seq"
  /\ NObs = 2
  /\ toTokenLists(call.rows, {"*", "%"})[1] = toTokenLists(call.rows, {"*", "%"})[2]

\* the effective length of the first row of the call
FirstLength == effectiveLength(toTokenLists(call.rows, {"*", "%"})[1])

Front(s) == SubSeq(s, 1, Len(s) - 1)

\* the classical edit distance: the least number of unit-cost insertions,
\* deletions and substitutions that turn a into b
RECURSIVE editDistance(_, _)
editDistance(a, b) ==
  IF a = <<>> THEN Len(b)
  ELSE IF b = <<>> THEN Len(a)
  ELSE MinOf(MinOf(editDistance(Front(a), b) + 1, editDistance(a, Front(b)) + 1),
             editDistance(Front(a), Front(b))
               + (IF a[Len(a)] = b[Len(b)] THEN 0 ELSE 1))

\* the token lists of the rows of the call
Tokens == toTokenLists(call.rows, NullishOr(call.naSyms, {"*", "%"}))

\* the matrix of a call on sequences is built
SequenceMatrix == distance # <<>> /\ ~NumericPath(call)

\* C11: with 'lv' every off-diagonal entry of the distance matrix is the
\* classical Levenshtein distance of the two sequences; on the six test
\* sequences it is 2 between [A,B,C] and [C,A,B] and 1 between [A,B,C] and [A,B,A]
C11_LvIsEditDistance ==
  (SequenceMatrix /\ dissimilarity = "lv") =>
    /\ \A i, j \in 0..(NObs - 1) :
         i # j => distance[i][j] = Num(editDistance(Tokens[i + 1], Tokens[j + 1]))
    /\ call.rows = TestSequences =>
         distance[0][1] = Num(2) /\ distance[0][2] = Num(1)

\* the length of a longest common subsequence of a and b
RECURSIVE lcsLength(_, _)
lcsLength(a, b) ==
  IF a = <<>> \/ b = <<>> THEN 0
  ELSE IF a[Len(a)] = b[Len(b)] THEN lcsLength(Front(a), Front(b)) + 1
  ELSE MaxOf(lcsLength(Front(a), b), lcsLength(a, Front(b)))

\* the effective-length prefix of row i of the call (i from 0)
Prefix(i) == SubSeq(Tokens[i + 1], 1, effectiveLength(Tokens[i + 1]))

editNeighbours(s, alphabet, maxLen) ==
  {SubSeq(s, 1, p - 1) \o SubSeq(s, p + 1, Len(s)) : p \in 1..Len(s)}
  \cup {[s EXCEPT ![p] = t] : p \in 1..Len(s), t \in alphabet}
  \cup {[s EXCEPT ![p] = s[p + 1], ![p + 1] = s[p]] : p \in 1..(Len(s) - 1)}
  \cup (IF Len(s) < maxLen
        THEN {SubSeq(s, 1, p) \o <<t>> \o SubSeq(s, p + 1, Len(s)) :
                p \in 0..Len(s), t \in alphabet}
        ELSE {})

\* the least number of edits that reach b from the set reached after t edits
RECURSIVE editsFrom(_, _, _, _, _)
editsFrom(reached, b, alphabet, maxLen, t) ==
  IF b \in reached THEN t
  ELSE editsFrom(reached \cup UNION {editNeighbours(s, alphabet, maxLen) : s \in reached},
                 b, alphabet, maxLen, t + 1)

\* the unrestricted Damerau-Levenshtein distance of a and b
damerauLevenshtein(a, b) ==
  editsFrom({a}, b, {a[p] : p \in 1..Len(a)} \cup {b[p] : p \in 1..Len(b)},
            MaxOf(Len(a), Len(b)) + 1, 0)

\* C13: with 'dl' the distance of two sequences is the unrestricted
\* Damerau-Levenshtein distance of their effective-length prefixes: the least
\* number of insertions, deletions, substitutions of a different token and
\* transpositions of adjacent tokens
C13_DlDistance ==
  (SequenceMatrix /\ dissimilarity = "dl") =>
    \A i, j \in 0..(NObs - 1) :
      i # j => distance[i][j] = Num(damerauLevenshtein(Prefix(i), Prefix(j)))

\* the dl matrix of [B,A] and [A,missing,B] is built: distance 2 (a
\* transposition around an inserted token), where the restricted distance is 3
C13_Witness ==
  /\ pc = "cluster"
  /\ dissimilarity = "dl"
  /\ call.rows = <<<<"B", "A">>, <<"A", Null, "B">>>>
  /\ distance[0][1] = Num(2)

RECURSIVE SumOfSeq(_)
SumOfSeq(s) == IF s = <<>> THEN 0 ELSE s[Len(s)] + SumOfSeq(Front(s))

\* C14: in every result assignments has n entries, sizes has k entries, sizes
\* holds for each id of 1..k the number of observations with that id, the sizes
\* sum to n, and k, method and dissimilarity are those of the request
C14_ResultShape ==
  (pc = "done") =>
    /\ DOMAIN result.assignments = 0..(NObs - 1)
    /\ Len(result.sizes) = call.k
    /\ \A c \in 1..call.k :
         result.sizes[c] = Cardinality({i \in 0..(NObs - 1) : result.assignments[i] = c})
    /\ SumOfSeq(result.sizes) = NObs
    /\ result.k = call.k
    /\ result.method = NullishOr(call.method, "pam")
    /\ result.dissimilarity =
         NullishOr(call.dissimilarity, IF NumericPath(call) THEN "euclidean" ELSE "hamming")

\* a call on the six test sequences with a linkage and 'lcs' has returned two
\* clusters, none of them empty
C14_Witness ==
  /\ pc = "done"
  /\ call.rows = TestSequences
  /\ call.method = "complete"
  /\ call.dissimilarity = "lcs"
  /\ result.sizes[1] > 0
  /\ result.sizes[2] > 0
  /\ result.sizes[1] + result.sizes[2] = 6

\* C15: the facade runs pam exactly when method is 'pam' (the default) and the
\* hierarchical solver for any other method; a method that is none of the eight
\* linkage names gives the assignments of 'average'
C15_MethodDispatch ==
  Clustered =>
    /\ (NullishOr(call.method, "pam") = "pam") <=> (medoids # <<>>)
    /\ (NullishOr(call.method, "pam") # "pam") <=> (hier # NoHier)
    /\ medoids # <<>> => assignments = pamAssign(distance, NObs, call.k, medoids)
    /\ hier # NoHier => assignments = hierarchical(distance, NObs, call.k, method)
    /\ method \notin Linkages \cup {"pam"} =>
         assignments = hierarchical(distance, NObs, call.k, "average")

\* the call on the six test sequences with method 'hierarchical' and 'lcs' has
\* returned a partition that 'single' does not give
C15_Witness ==
  /\ pc = "done"
  /\ call.rows = TestSequences
  /\ call.method = "hierarchical"
  /\ dissimilarity = "lcs"
  /\ result.assignments = hierarchical(distance, 6, 2, "average")
  /\ result.assignments # hierarchical(distance, 6, 2, "single")

\* the rows of the call with the cell v appended to row r
WithCell(r, v) == [call.rows EXCEPT ![r] = Append(@, v)]

\* the token lists of the call with a missing token appended to row r
WithSentinel(r) == [Tokens EXCEPT ![r] = Append(@, SENTINEL)]

\* C16: for every sequence dissimilarity, a missing token (null, empty string
\* or a declared NA symbol) appended to a sequence leaves its distance to the
\* other sequence unchanged
C16_TrailingMissingIgnored ==
  (pc = "cluster" /\ SequenceMatrix /\ NObs = 2) =>
    \A r \in 1..2 :
      /\ \A v \in {Null, "", "*", "%"} :
           toTokenLists(WithCell(r, v), {"*", "%"}) = WithSentinel(r)
      /\ toTokenLists(WithCell(r, "?"), {"?"}) = WithSentinel(r)
      /\ effectiveLength(WithSentinel(r)[r]) = effectiveLength(Tokens[r])
      /\ computeDistanceMatrix(WithSentinel(r), dissimilarity).dist[0][1] = distance[0][1]

\* the lcs matrix of [A,B] and [A] is built: the distance is 1, and still 1
\* with two missing tokens appended to [A]
C16_Witness ==
  /\ pc = "cluster"
  /\ dissimilarity = "lcs"
  /\ call.rows = <<<<"A", "B">>, <<"A">>>>
  /\ distance[0][1] = Num(1)
  /\ computeDistanceMatrix(<<<<"A", "B">>, <<"A", SENTINEL, SENTINEL>>>>, "lcs").dist[0][1]
       = Num(1)

\* the total distance of observation i to all observations
TotalDist(i) == totalDistsOf(distance, NObs)[i]

\* C17: the first medoid of the build phase has the least total distance to
\* all observations, and of the observations with that total it is the one with
\* the highest index
C17_FirstMedoid ==
  (pc = "build") =>
    \A i \in 0..(NObs - 1) :
      /\ NumLe(TotalDist(medoids[1]), TotalDist(i))
      /\ i > medoids[1] => NumLt(TotalDist(medoids[1]), TotalDist(i))

\* the first medoid is chosen among several observations of the same least
\* total, and an observation of a larger total follows it
C17_Witness ==
  /\ pc = "build"
  /\ Len(medoids) = 1
  /\ \E i \in 0..(NObs - 1) : i < medoids[1] /\ TotalDist(i) = TotalDist(medoids[1])
  /\ \E i \in 0..(NObs - 1) : i > medoids[1] /\ NumGt(TotalDist(i), TotalDist(medoids[1]))

\* the gain of candidate c against the distances nd to the nearest medoid
Gain(nd, c) == gainOf(distance, NObs, nd, c)

\* the observations that are no medoid
NonMedoids == {c \in 0..(NObs - 1) : ~Includes(medoids, c)}

\* C18: each further medoid of the build phase is a non-medoid c of maximal
\* gain, the sum over i of max(0, nearestDist(i) - d(i,c)) with nearestDist(i) the
\* distance from i to its nearest medoid so far; of the candidates of maximal
\* gain it is the one with the highest index; nearestDist(i) then becomes
\* min(nearestDist(i), d(i,c))
C18_NextMedoid ==
  [][pc = "build" =>
       /\ \A i \in 0..(NObs - 1) :
            nearestDist[i] = minDistFrom(distance[i], medoids, 1, Infinity)
       /\ Len(medoids') = Len(medoids) + 1
       /\ SubSeq(medoids', 1, Len(medoids)) = medoids
       /\ medoids'[Len(medoids')] \in NonMedoids
       /\ \A c \in NonMedoids :
            /\ NumLe(Gain(nearestDist, c), Gain(nearestDist, medoids'[Len(medoids')]))
            /\ c > medoids'[Len(medoids')] =>
                 NumLt(Gain(nearestDist, c), Gain(nearestDist, medoids'[Len(medoids')]))
       /\ nearestDist' = [i \in 0..(NObs - 1) |->
                            NumMin(nearestDist[i], distance[i][medoids'[Len(medoids')]])]
    ]_vars

\* the distances to the first of two build medoids
FirstNearest == [i \in 0..(NObs - 1) |-> distance[i][medoids[1]]]

\* the second medoid was chosen among several candidates of the same positive
\* gain: an earlier candidate has the gain of the one chosen
C18_Witness ==
  /\ pc = "swap"
  /\ iter = 0
  /\ call.k = 2
  /\ NumGt(Gain(FirstNearest, medoids[2]), Num(0))
  /\ \E c \in NonMedoids :
       c < medoids[2] /\ Gain(FirstNearest, c) = Gain(FirstNearest, medoids[2])

\* total assignment cost of the medoid list arr
Cost(arr) == costOf(distance, NObs, arr)

\* the replacements a swap pass evaluates: <<slot, candidate>>
Trials == {<<p, c>> : p \in 1..Len(medoids), c \in NonMedoids}

Replaced(t) == [medoids EXCEPT ![t[1]] = t[2]]

\* C19: a pass of the swap phase evaluates every (slot, non-medoid candidate)
\* replacement and applies at most one: one of the lowest resulting total cost,
\* and only when that cost is strictly lower than the current cost; a
\* replacement of equal cost is not applied and the phase ends
C19_SwapPass ==
  [][pc = "swap" =>
       /\ medoids' = medoids \/ \E t \in Trials : medoids' = Replaced(t)
       /\ medoids' # medoids =>
            /\ NumLt(Cost(medoids'), Cost(medoids))
            /\ \A t \in Trials : NumLe(Cost(medoids'), Cost(Replaced(t)))
       /\ (\E t \in Trials : NumLt(Cost(Replaced(t)), Cost(medoids))) => medoids' # medoids
       /\ (\A t \in Trials : NumGe(Cost(Replaced(t)), Cost(medoids))) =>
            medoids' = medoids /\ pc' = "assign"
    ]_vars

\* a pass has replaced a medoid, and the next pass has a replacement of equal
\* cost to evaluate
C19_Witness ==
  /\ pc = "swap"
  /\ iter = 1
  /\ \E t \in Trials : Cost(Replaced(t)) = Cost(medoids)

\* C20: the swap phase ends after at most 100 passes: a pass either ends the
\* phase or is counted, and the count of a running phase stays below 100; every
\* swap applied strictly lowers the total assignment cost; and when
\* the phase ends before the cap no single (slot, candidate) replacement has a
\* strictly lower cost than the final medoids
C20_SwapTerminates ==
  /\ []((pc = "swap") => iter < MaxIter)
  /\ [][(pc = "swap") =>
          \/ pc' = "assign" /\ iter' <= MaxIter
          \/ pc' = "swap" /\ iter' = iter + 1]_vars
  /\ [][(pc = "swap" /\ medoids' # medoids) =>
          iter' = iter + 1 /\ NumLt(Cost(medoids'), Cost(medoids))]_vars
  /\ []((pc = "assign" /\ iter < MaxIter) =>
          \A t \in Trials : NumGe(Cost(Replaced(t)), Cost(medoids)))

\* the phase has ended after one swap, with replacements left that do not
\* lower the cost
C20_Witness ==
  /\ pc = "assign"
  /\ iter = 1
  /\ Trials # {}
  /\ \A t \in Trials : NumGe(Cost(Replaced(t)), Cost(medoids))

\* the final medoids ascending by observation index
Sorted == sortedMedoidsOf(medoids)

\* pam has returned its partition
PamDone == Clustered /\ method = "pam"

\* no medoid is nearer to observation i than the medoid at position p of Sorted
Nearest(i, p) == \A q \in 1..Len(Sorted) : NumLe(distance[i][Sorted[p]], distance[i][Sorted[q]])

\* C21: the id pam returns for observation i is the position, counted from 1 in
\* the final medoids sorted ascending by index, of a medoid at minimal distance
\* from i, and the lowest such position when several medoids are that near
C21_PamIds ==
  PamDone =>
    /\ \A p \in 1..(Len(Sorted) - 1) : Sorted[p] < Sorted[p + 1]
    /\ {Sorted[p] : p \in 1..Len(Sorted)} = {medoids[p] : p \in 1..Len(medoids)}
    /\ \A i \in 0..(NObs - 1) :
         /\ assignments[i] \in 1..Len(Sorted)
         /\ Nearest(i, assignments[i])
         /\ \A p \in 1..(assignments[i] - 1) : ~Nearest(i, p)

\* pam has assigned from medoids the swap phase left out of order, and some
\* observation has two medoids at its minimal distance
C21_Witness ==
  /\ PamDone
  /\ medoids # Sorted
  /\ \E i \in 0..(NObs - 1) : \E p, q \in 1..Len(Sorted) :
       p < q /\ Nearest(i, p) /\ Nearest(i, q) /\ assignments[i] = p

\* the medoid list holds pairwise-distinct observation indices
DistinctMedoids ==
  /\ \A p \in 1..Len(medoids) : medoids[p] \in 0..(NObs - 1)
  /\ \A p, q \in 1..Len(medoids) : p # q => medoids[p] # medoids[q]

\* C22: given 2 <= k <= n, throughout the build and swap phases of pam the
\* medoid list holds pairwise-distinct observation indices of 0..n-1, never -1;
\* it has exactly k entries when the build phase ends and after every swap
C22_MedoidsDistinct ==
  /\ [](method = "pam" => DistinctMedoids)
  /\ []((method = "pam" /\ pc = "build") => Len(medoids) \in 1..(call.k - 1))
  /\ []((method = "pam" /\ pc \in {"swap", "assign"}) => Len(medoids) = call.k)
  /\ [][(pc = "swap") => (Len(medoids') = call.k /\ DistinctMedoids')]_vars

\* a swap has been applied to the medoids chosen from data with a duplicate row
C22_Witness ==
  /\ pc = "swap"
  /\ iter = 1
  /\ Len(medoids) = call.k
  /\ ZeroPair(distance, NObs)
  /\ DistinctMedoids

\* the ids of the active clusters
Active == {hier.active[x] : x \in 1..Len(hier.active)}

\* the pairs of active clusters the scan visits
ActivePairs == {t \in Active \X Active : t[1] < t[2]}

\* pair t comes before pair u in scan order
Before(t, u) == t[1] < u[1] \/ (t[1] = u[1] /\ t[2] < u[2])

\* the step merges the pair t: the higher id is absorbed into the lower
Merges(t) ==
  /\ hier'.active = Remove(hier.active, t[2])
  /\ hier'.clusters[t[1]] = hier.clusters[t[1]] \o hier.clusters[t[2]]
  /\ hier'.sizes[t[1]] = hier.sizes[t[1]] + hier.sizes[t[2]]

\* C23: every merge step merges a pair of active clusters at minimal working
\* distance among the active pairs, the first such pair in scan order (ascending
\* first id, then ascending second id); the cluster of the higher id is absorbed
\* into the one of the lower id
C23_ClosestPairMerged ==
  [][(pc = "merge" /\ hier' # hier) =>
       \E t \in ActivePairs :
         /\ Merges(t)
         /\ \A u \in ActivePairs :
              /\ NumLe(hier.d[t[1]][t[2]], hier.d[u[1]][u[2]])
              /\ Before(u, t) => NumLt(hier.d[t[1]][t[2]], hier.d[u[1]][u[2]])
    ]_vars

\* the working table before the first merge
Working == workingCopy(distance, NObs, method)

\* the first merge took the first of two pairs at the same minimal distance
C23_Witness ==
  /\ pc = "merge"
  /\ Len(hier.active) = NObs - 1
  /\ \E i, j, a, b \in 0..(NObs - 1) :
       /\ i < j /\ a < b /\ Before(<<i, j>>, <<a, b>>)
       /\ Working[i][j] = Working[a][b]
       /\ \A x, y \in 0..(NObs - 1) : x < y => NumLe(Working[i][j], Working[x][y])
       /\ hier.clusters[i] = <<i, j>>

\* the hierarchical solver is running or has returned
HierRun == method # "pam" /\ hier # NoHier

\* C24: for 2 <= k <= n the hierarchical solver ends after exactly n - k
\* merges: every iteration of the loop merges two distinct active clusters and
\* lowers the number of active clusters by exactly one, and the loop ends with
\* exactly k active clusters
C24_MergeCount ==
  /\ [](HierRun => Len(hier.active) \in call.k..NObs)
  /\ [][(pc = "merge" /\ hier' # hier) =>
          /\ Len(hier.active) > call.k
          /\ Len(hier'.active) = Len(hier.active) - 1
          /\ \E t \in ActivePairs : Merges(t)]_vars
  /\ [][(pc = "merge" /\ pc' # "merge") => Len(hier.active) = call.k]_vars
  /\ []((HierRun /\ Clustered) => Len(hier.active) = call.k)

\* the loop has ended after two merges, 4 observations in 2 clusters
C24_Witness ==
  /\ HierRun
  /\ pc = "score"
  /\ NObs = 4
  /\ call.k = 2
  /\ Len(hier.active) = 2

\* the number of positions of active membership lists that hold the point
Memberships(point) ==
  Cardinality({t \in Active \X (0..NObs) :
                 t[2] \in 1..Len(hier.clusters[t[1]]) /\ hier.clusters[t[1]][t[2]] = point})

\* C25: after any number of merges the membership lists of the active
\* clusters are pairwise disjoint and hold every observation exactly once, the
\* size recorded for an active cluster is the length of its list, and the
\* working table is symmetric between every two active clusters
C25_ClustersPartition ==
  HierRun =>
    /\ \A point \in 0..(NObs - 1) : Memberships(point) = 1
    /\ \A a \in Active :
         /\ hier.sizes[a] = Len(hier.clusters[a])
         /\ \A x \in 1..Len(hier.clusters[a]) : hier.clusters[a][x] \in 0..(NObs - 1)
    /\ \A a, b \in Active : hier.d[a][b] = hier.d[b][a]

\* two merges have left a cluster of three observations and a single one
C25_Witness ==
  /\ HierRun
  /\ pc = "merge"
  /\ NObs = 4
  /\ Len(hier.active) = 2
  /\ \E a \in Active : hier.sizes[a] = 3 /\ Len(hier.clusters[a]) = 3

\* the pairs of a member of active cluster a and a member of active cluster b
MemberPairs(a, b) ==
  {<<hier.clusters[a][x], hier.clusters[b][y]>> :
     x \in 1..Len(hier.clusters[a]), y \in 1..Len(hier.clusters[b])}

\* the mean of the original distances over the member pairs of a and b, summed
\* member by member
MeanDistance(a, b) ==
  NumDiv(NumSumFrom([t \in 0..(hier.sizes[a] * hier.sizes[b] - 1) |->
                       distance[hier.clusters[a][(t \div hier.sizes[b]) + 1]]
                               [hier.clusters[b][(t % hier.sizes[b]) + 1]]],
                    0, hier.sizes[a] * hier.sizes[b] - 1, Num(0)),
         Num(hier.sizes[a] * hier.sizes[b]))

\* 2^-40: the rounding allowed between two ways of summing the same distances
Rounding == <<1, 1, -40, <<1>>>>

\* C26: after any number of merges the working distance between two active
\* clusters is, for 'single', the minimum of the original distances over the
\* pairs of their members; for 'complete', the maximum; for 'average', their
\* arithmetic mean (up to the rounding of the sum)
C26_LinkageMeaning ==
  HierRun =>
    \A a, b \in Active :
      a # b =>
        /\ method = "single" =>
             /\ \E t \in MemberPairs(a, b) : hier.d[a][b] = distance[t[1]][t[2]]
             /\ \A t \in MemberPairs(a, b) : NumLe(hier.d[a][b], distance[t[1]][t[2]])
        /\ method = "complete" =>
             /\ \E t \in MemberPairs(a, b) : hier.d[a][b] = distance[t[1]][t[2]]
             /\ \A t \in MemberPairs(a, b) : NumGe(hier.d[a][b], distance[t[1]][t[2]])
        /\ method = "average" =>
             NumLe(NumAbs(NumSub(hier.d[a][b], MeanDistance(a, b))), Rounding)

\* with 'average', two merges have left a cluster of three observations whose
\* distance to the fourth is the mean of three different original distances
C26_Witness ==
  /\ HierRun
  /\ method = "average"
  /\ pc = "merge"
  /\ NObs = 4
  /\ \E a, b \in Active :
       /\ hier.sizes[a] = 3 /\ hier.sizes[b] = 1
       /\ \E t, u \in MemberPairs(a, b) : distance[t[1]][t[2]] # distance[u[1]][u[2]]
       /\ NumLe(NumAbs(NumSub(hier.d[a][b], MeanDistance(a, b))), Rounding)

\* x + y without rounding, both non-negative, kept at binary exponent e
ExactAddAt(x, y, e) ==
  <<1, 1, e, BigAdd(BigShl(NumMant(x), NumExp(x) - e), BigShl(NumMant(y), NumExp(y) - e))>>

ExactAdd(x, y) == ExactAddAt(x, y, MinOf(NumExp(x), NumExp(y)))

\* the sum, without rounding, of the original distances over a set of pairs
RECURSIVE ExactSumOver(_)
ExactSumOver(S) ==
  IF S = {} THEN Num(0)
  ELSE LET t == CHOOSE t \in S : TRUE
       IN  ExactAdd(distance[t[1]][t[2]], ExactSumOver(S \ {t}))

\* the arithmetic mean of the original distances over the member pairs of a
\* and b, rounded once to the nearest binary64 value
ExactMean(a, b) ==
  NumDiv(ExactSumOver(MemberPairs(a, b)), Num(hier.sizes[a] * hier.sizes[b]))

\* C26 as first stated: with 'average' the working distance between two
\* active clusters is exactly the arithmetic mean of the original distances
\* over the pairs of their members
C26_AverageIsExactMean ==
  (HierRun /\ method = "average") =>
    \A a, b \in Active : a # b => hier.d[a][b] = ExactMean(a, b)

\* the matrix of squared distances of the call
SquaredDistances ==
  [i \in 0..(NObs - 1) |-> [j \in 0..(NObs - 1) |-> NumMul(distance[i][j], distance[i][j])]]

\* C27: 'ward.D2' on the distance matrix of the call returns the assignments
\* that 'ward.D' returns on the matrix of squared distances
C27_WardD2IsWardDOnSquares ==
  /\ (Clustered /\ method = "ward.D2") =>
       assignments = hierarchical(SquaredDistances, NObs, call.k, "ward.D")
  /\ (pc = "merge" /\ method = "ward.D2" /\ Len(hier.active) = NObs) =>
       hier.d = workingCopy(SquaredDistances, NObs, "ward.D")

\* 'ward.D2' has clustered four observations in two clusters, and the squaring
\* decided the outcome: 'ward.D' on the unsquared matrix clusters them otherwise
C27_Witness ==
  /\ Clustered
  /\ method = "ward.D2"
  /\ NObs = 4
  /\ call.k = 2
  /\ assignments = hierarchical(SquaredDistances, NObs, call.k, "ward.D")
  /\ assignments # hierarchical(distance, NObs, call.k, "ward.D")

\* the pairwise dissimilarities of the rows of the call, computed afresh
OriginalDistances ==
  IF NumericPath(call)
  THEN computeNumericDistanceMatrix(call.rows, dissimilarity)
  ELSE computeDistanceMatrix(toTokenLists(call.rows, NullishOr(call.naSyms, {"*", "%"})),
                             dissimilarity).dist

\* C28: once built, the distance matrix of the call is changed by no step of
\* either solver (the squaring for 'ward.D2' and the Lance-Williams updates go
\* to the working copy), the rows of the call are never changed, and the
\* matrix in the result, which the silhouette was computed from, holds the
\* original pairwise dissimilarities
C28_InputsUnchanged ==
  /\ [][call' = call /\ (pc # "dist" => distance' = distance)]_vars
  /\ [](pc = "done" =>
          /\ result.distance = OriginalDistances
          /\ result.silhouette = silhouetteScore(OriginalDistances, result.assignments, NObs)
          /\ ~NumericPath(call) => result.data = call.rows)

\* 'ward.D2' on the six test sequences has returned: the working table was
\* squared and updated by four merges, the matrix of the result was not
C28_Witness ==
  /\ pc = "done"
  /\ method = "ward.D2"
  /\ call.rows = TestSequences
  /\ Len(hier.active) = 2
  /\ \E i, j \in 0..(NObs - 1) : hier.d[i][j] # distance[i][j]
  /\ result.distance = OriginalDistances

\* the first observation that received id c
FirstSeen(c) == CHOOSE i \in 0..(NObs - 1) :
                  assignments[i] = c /\ \A j \in 0..(i - 1) : assignments[j] # c

\* C29: the surviving cluster ids are kept in ascending order and each is the
\* smallest observation index among the members of its cluster; the labelled
\* output numbers the surviving clusters 1..k in that order, so observation 0
\* receives id 1, each id c > 1 first appears after id c - 1 first appears, and
\* the output is its own first-seen canonical form
C29_HierCanonicalOrder ==
  /\ HierRun =>
       /\ \A x, y \in 1..Len(hier.active) : x < y => hier.active[x] < hier.active[y]
       /\ \A a \in Active :
            /\ Includes(hier.clusters[a], a)
            /\ \A x \in 1..Len(hier.clusters[a]) : hier.clusters[a][x] >= a
  /\ (Clustered /\ method # "pam") =>
       /\ Len(hier.active) = call.k
       /\ \A x \in 1..Len(hier.active) :
            \A y \in 1..Len(hier.clusters[hier.active[x]]) :
              assignments[hier.clusters[hier.active[x]][y]] = x
       /\ assignments[0] = 1
       /\ \A c \in 2..call.k :
            /\ \E i \in 0..(NObs - 1) : assignments[i] = c
            /\ FirstSeen(c) > FirstSeen(c - 1)
       /\ canonicalize(assignments, NObs) = assignments

\* three clusters of four observations, the first holding observations 0 and
\* 2 or 3, so that the ids do not simply grow along the observations
C29_Witness ==
  /\ pc = "done"
  /\ method # "pam"
  /\ NObs = 4
  /\ call.k = 3
  /\ \E i \in 1..(NObs - 1) : assignments[i] < assignments[i - 1]
  /\ canonicalize(assignments, NObs) = assignments

\* C30: when no two distinct observations are at distance 0, pam gives each
\* final medoid the id of its own slot in the sorted medoids, so every id of
\* 1..k is used and every entry of sizes is at least 1
C30_MedoidsOwnSlot ==
  (PamDone /\ ~ZeroPair(distance, NObs)) =>
    /\ Len(Sorted) = call.k
    /\ \A p \in 1..Len(Sorted) : assignments[Sorted[p]] = p
    /\ EveryIdUsed(assignments, NObs, call.k)
    /\ pc = "done" =>
         /\ Len(result.sizes) = call.k
         /\ \A c \in 1..call.k : result.sizes[c] >= 1

\* four distinct points in three clusters: the medoids were found out of
\* index order, each has the id of its slot, and no cluster is empty
C30_Witness ==
  /\ pc = "done"
  /\ method = "pam"
  /\ ~ZeroPair(distance, NObs)
  /\ NObs = 4
  /\ call.k = 3
  /\ medoids # Sorted
  /\ \A p \in 1..Len(Sorted) : assignments[Sorted[p]] = p
  /\ \A c \in 1..call.k : result.sizes[c] >= 1

====
